---- MODULE Spec2Model ----
(***************************************************************************)
(* Model of the x5-ner-service sequence-labelling core:                    *)
(*   app/service/postprocess.py  PostProcessor (span conflict resolution)  *)
(*   app/service/features.py     spans_to_bio, bio_validate                *)
(*   app/service/stacked_crf.py  the bio_to_spans step of predict_spans    *)
(*                                                                         *)
(* Strings.  The code only ever inspects a label or tag through '-':       *)
(* startswith('B-'), split('-'), split('-', 1), "'-' in s", f'B-{ent}'.    *)
(* A string is therefore modelled as the sequence of its '-'-separated     *)
(* pieces: "B-VOLUME" is <<"B","VOLUME">>, "O" is <<"O">>, "TYPE" is       *)
(* <<"TYPE">>.  Joining with '-' is concatenation of piece sequences.      *)
(***************************************************************************)
EXTENDS Integers, Sequences, FiniteSets, TLC

VARIABLES pc, spans, ret, tokens, gold, tags, text, corpus, model, fit, service,
          probs_list

vars == <<pc, spans, ret, tokens, gold, tags, text, corpus, model, fit, service, probs_list>>

\* the state of the trainer and of the service, which the span and tag
\* functions never touch
others == <<text, corpus, model, fit, service, probs_list>>

\* no text, no training data, no StackedCRF object, no Pipeline
NoOthers ==
    /\ text = <<>>
    /\ corpus = <<>>
    /\ model = <<>>
    /\ fit = <<>>
    /\ service = <<>>
    /\ probs_list = <<>>

(***************************************************************************)
(* Bounds of the model.                                                    *)
(***************************************************************************)
\* largest character offset in a text: candidate spans, tokens and gold
\* spans lie within [0, MaxPos]
MaxPos == 2
\* largest number of candidate spans in one PostProcessor call
MaxSpans == 3
\* largest number of gold spans of one training sentence
MaxGold == 2
\* largest number of tags in a sequence handed to bio_validate
MaxTags == 4

(***************************************************************************)
(* Generic helpers.                                                        *)
(***************************************************************************)
SeqsUpTo(S, n) == UNION {[1..k -> S] : k \in 0..n}

Max2(a, b) == IF a >= b THEN a ELSE b

Min2(a, b) == IF a <= b THEN a ELSE b

\* the list positions of s, as a set
Idx(s) == 1..Len(s)

(***************************************************************************)
(* rules.py: Span, and the entity strings the span sources produce.        *)
(***************************************************************************)
\* Span(start, end, entity, text); the text of a span is the slice of the
\* request text it was cut from, identified here by that slice.
Span(a, b, e) == [start |-> a, end |-> b, entity |-> e, text |-> <<a, b>>]

\* entity strings of the enumerated candidate spans: the regex rules emit
\* B-/I- tags, the NER extraction emits bare names (BRAND and the other
\* prefixed tags enter through the example lists below)
EntityTags ==
    { <<"B", "PERCENT">>, <<"B", "VOLUME">>, <<"I", "VOLUME">>, <<"TYPE">> }

(***************************************************************************)
(* postprocess.py: PostProcessor.                                          *)
(***************************************************************************)
\* the priority table with the ranks of VOLUME and BRAND exchanged
ENTITY_PRIORITIES_Swapped(entity_type) ==
    CASE entity_type = <<"PERCENT">> -> 4
      [] entity_type = <<"VOLUME">>  -> 2
      [] entity_type = <<"BRAND">>   -> 3
      [] entity_type = <<"TYPE">>    -> 1
      [] OTHER                       -> 0

\* ENTITY_PRIORITIES.get(entity_type, 0)
ENTITY_PRIORITIES(entity_type) ==
    CASE entity_type = <<"PERCENT">> -> 4
      [] entity_type = <<"VOLUME">>  -> 3
      [] entity_type = <<"BRAND">>   -> 2
      [] entity_type = <<"TYPE">>    -> 1
      [] OTHER                       -> 0

\* entity.split('-', 1)[1] if '-' in entity else entity
entity_type_of(entity) == IF Len(entity) >= 2 THEN Tail(entity) ELSE entity

\* the priority lookup on the whole entity string, prefix included
get_entity_priority_NoStrip(entity) == ENTITY_PRIORITIES(entity)

get_entity_priority(entity) == ENTITY_PRIORITIES(entity_type_of(entity))

\* overlap that also counts two spans that only touch
spans_overlap_Touching(span1, span2) ==
    ~(span1.end < span2.start \/ span2.end < span1.start)

spans_overlap(span1, span2) ==
    ~(span1.end <= span2.start \/ span2.end <= span1.start)

\* adjacency that also accepts a one-character gap
spans_adjacent_Gap(span1, span2) ==
    span1.end = span2.start \/ span1.end + 1 = span2.start

spans_adjacent(span1, span2) == span1.end = span2.start

\* sorted(xs, key=lambda x: x.start): Python's sort is stable
RECURSIVE InsertByStart(_, _)
InsertByStart(sorted, x) ==
    IF sorted = <<>> THEN <<x>>
    ELSE IF sorted[Len(sorted)].start <= x.start THEN Append(sorted, x)
    ELSE Append(InsertByStart(SubSeq(sorted, 1, Len(sorted) - 1), x),
                sorted[Len(sorted)])

RECURSIVE SortByStart(_)
SortByStart(xs) ==
    IF xs = <<>> THEN <<>>
    ELSE InsertByStart(SortByStart(SubSeq(xs, 1, Len(xs) - 1)), xs[Len(xs)])

\* list.pop(0): drops the first element whatever it is
ListRemove_Head(xs, x) == Tail(xs)

\* list.remove(x): drops the first element equal to x
RECURSIVE ListRemove(_, _)
ListRemove(xs, x) ==
    IF xs = <<>> THEN <<>>
    ELSE IF Head(xs) = x THEN Tail(xs)
    ELSE <<Head(xs)>> \o ListRemove(Tail(xs), x)

\* the sweep step with the replaced span left in the list
ResolveStepKeepBoth(resolved_spans, current_span) ==
    IF \E j \in Idx(resolved_spans) :
          spans_overlap(current_span, resolved_spans[j])
    THEN LET j == CHOOSE k \in Idx(resolved_spans) :
                    /\ spans_overlap(current_span, resolved_spans[k])
                    /\ \A m \in 1..(k - 1) :
                          ~spans_overlap(current_span, resolved_spans[m])
         IN IF get_entity_priority(current_span.entity)
                 > get_entity_priority(resolved_spans[j].entity)
            THEN Append(resolved_spans, current_span)
            ELSE resolved_spans
    ELSE Append(resolved_spans, current_span)

\* one iteration of the sweep: current_span against resolved_spans
ResolveStep(resolved_spans, current_span) ==
    LET hits == {j \in Idx(resolved_spans) :
                    spans_overlap(current_span, resolved_spans[j])}
    IN IF hits = {} THEN Append(resolved_spans, current_span)
       ELSE LET j == CHOOSE k \in hits : \A m \in hits : k <= m
                existing_span == resolved_spans[j]
            IN IF get_entity_priority(current_span.entity)
                    > get_entity_priority(existing_span.entity)
               THEN Append(ListRemove(resolved_spans, existing_span),
                           current_span)
               ELSE resolved_spans

RECURSIVE ResolveSweep(_, _)
ResolveSweep(resolved_spans, sorted_spans) ==
    IF sorted_spans = <<>> THEN resolved_spans
    ELSE ResolveSweep(ResolveStep(resolved_spans, Head(sorted_spans)),
                      Tail(sorted_spans))

resolve_conflicts(xs) ==
    IF xs = <<>> THEN <<>> ELSE ResolveSweep(<<>>, SortByStart(xs))

\* the keys of entity_groups, in insertion order
RECURSIVE GroupKeys(_)
GroupKeys(xs) ==
    IF xs = <<>> THEN <<>>
    ELSE LET before == GroupKeys(SubSeq(xs, 1, Len(xs) - 1))
             k == entity_type_of(xs[Len(xs)].entity)
         IN IF \E i \in Idx(before) : before[i] = k THEN before
            ELSE Append(before, k)

\* entity_groups[entity_type], in insertion order
GroupOf(xs, entity_type) ==
    SelectSeq(xs, LAMBDA s : entity_type_of(s.entity) = entity_type)

\* the tagging that continues every span after the first of its group
TagGroup_AlwaysI(entity_type, entity_spans) ==
    LET sorted_spans == SortByStart(entity_spans)
    IN [i \in Idx(sorted_spans) |->
          [start  |-> sorted_spans[i].start,
           end    |-> sorted_spans[i].end,
           entity |-> IF i = 1 THEN <<"B">> \o entity_type
                      ELSE <<"I">> \o entity_type,
           text   |-> sorted_spans[i].text]]

\* the ProcessedSpans of one group
TagGroup(entity_type, entity_spans) ==
    LET sorted_spans == SortByStart(entity_spans)
    IN [i \in Idx(sorted_spans) |->
          [start  |-> sorted_spans[i].start,
           end    |-> sorted_spans[i].end,
           entity |-> IF i = 1 \/ ~spans_adjacent(sorted_spans[i - 1],
                                                  sorted_spans[i])
                      THEN <<"B">> \o entity_type
                      ELSE <<"I">> \o entity_type,
           text   |-> sorted_spans[i].text]]

RECURSIVE TagGroups(_, _)
TagGroups(xs, keys) ==
    IF keys = <<>> THEN <<>>
    ELSE TagGroup(Head(keys), GroupOf(xs, Head(keys)))
            \o TagGroups(xs, Tail(keys))

validate_bio_sequence(xs) ==
    IF xs = <<>> THEN <<>> ELSE TagGroups(xs, GroupKeys(xs))

\* process_spans without its final sort
process_spans_NoSort(xs) == validate_bio_sequence(resolve_conflicts(xs))

process_spans(xs) == SortByStart(validate_bio_sequence(resolve_conflicts(xs)))

(***************************************************************************)
(* features.py: spans_to_bio and bio_validate.                             *)
(***************************************************************************)
\* Python's None
None == <<>>

\* rules.TAGS, the default tagset of spans_to_bio
TAGS ==
    { <<"O">>,
      <<"B", "BRAND">>, <<"I", "BRAND">>, <<"B", "TYPE">>, <<"I", "TYPE">>,
      <<"B", "VOLUME">>, <<"I", "VOLUME">>,
      <<"B", "PERCENT">>, <<"I", "PERCENT">> }

\* a token (tok, a, b) of tokenize_with_offsets; tok is the slice text[a:b]
Token(a, b) == [tok |-> <<a, b>>, a |-> a, b |-> b]

\* t.startswith(prefix + '-')
StartsWithDash(t, prefix) == Len(t) >= 2 /\ t[1] = prefix

\* the normalisation of one gold label
NormLabel(t) ==
    IF StartsWithDash(t, "B") \/ StartsWithDash(t, "I") \/ t = <<"O">>
    THEN <<t[Len(t)]>>
    ELSE t

\* norm: the gold spans (a, b, t) with normalised labels
NormSpans(gold_spans) ==
    [k \in Idx(gold_spans) |->
        <<gold_spans[k][1], gold_spans[k][2], NormLabel(gold_spans[k][3])>>]

\* overlap = max(0, min(b, sb) - max(a, sa))
CharOverlap(a, b, sa, sb) == Max2(0, Min2(b, sb) - Max2(a, sa))

\* the marking loop taking the last overlapping span instead of the first
MarkOf_LastMatch(token, norm) ==
    LET hits == {k \in Idx(norm) :
                    CharOverlap(token.a, token.b, norm[k][1], norm[k][2]) > 0}
    IN IF hits = {} THEN None
       ELSE norm[CHOOSE k \in hits : \A m \in hits : m <= k][3]

\* mark[i]: the entity of the first span of norm overlapping the token
MarkOf(token, norm) ==
    LET hits == {k \in Idx(norm) :
                    CharOverlap(token.a, token.b, norm[k][1], norm[k][2]) > 0}
    IN IF hits = {} THEN None
       ELSE norm[CHOOSE k \in hits : \A m \in hits : k <= m][3]

\* the "to BIO" loop over mark, prev_ent being the mark of the token before
MarksToBio(mark) ==
    [i \in Idx(mark) |->
        LET prev_ent == IF i = 1 THEN None ELSE mark[i - 1]
        IN IF mark[i] = None THEN <<"O">>
           ELSE IF prev_ent = mark[i] THEN <<"I">> \o mark[i]
           ELSE <<"B">> \o mark[i]]

\* the final filter, left out
FilterTags_Skipped(y, tagset) == y

\* y = [t if t in tagset else 'O' for t in y]
FilterTags(y, tagset) ==
    [i \in Idx(y) |-> IF y[i] \in tagset THEN y[i] ELSE <<"O">>]

spans_to_bio(toks, gold_spans, tagset) ==
    LET norm == NormSpans(gold_spans)
        mark == [i \in Idx(toks) |-> MarkOf(toks[i], norm)]
    IN FilterTags(MarksToBio(mark), tagset)

\* p = t.split('-', 1): one element without a '-', else the part before
\* the first '-' and the whole rest
Split1(t) == IF Len(t) = 1 THEN <<t[1]>> ELSE <<t[1], Tail(t)>>

\* the test of an I- tag that ignores the entity of the previous tag
ValidInside_AnyEntity(prev, prev_ent, ent) == prev \in {"B", "I"}

\* prev in ('B','I') and prev_ent==ent
ValidInside(prev, prev_ent, ent) == prev \in {"B", "I"} /\ prev_ent = ent

\* the iteration that turns an I- tag with no entity to continue into 'O'
BioValidateStep_OrphanToO(st, t) ==
    IF t = <<"O">>
    THEN [res |-> Append(st.res, t), prev |-> "O", prev_ent |-> None]
    ELSE IF Len(Split1(t)) # 2
    THEN [res |-> Append(st.res, <<"O">>), prev |-> "O", prev_ent |-> None]
    ELSE LET bi  == Split1(t)[1]
             ent == Split1(t)[2]
         IN IF bi = "B"
            THEN [res |-> Append(st.res, t), prev |-> "B", prev_ent |-> ent]
            ELSE IF bi = "I"
            THEN IF ValidInside(st.prev, st.prev_ent, ent)
                 THEN [res |-> Append(st.res, t), prev |-> "I",
                       prev_ent |-> st.prev_ent]
                 ELSE [res |-> Append(st.res, <<"O">>), prev |-> "O",
                       prev_ent |-> None]
            ELSE [res |-> Append(st.res, t), prev |-> st.prev,
                  prev_ent |-> st.prev_ent]

\* one iteration of bio_validate on tag t; st = [res, prev, prev_ent]
BioValidateStep(st, t) ==
    IF t = <<"O">>
    THEN [res |-> Append(st.res, t), prev |-> "O", prev_ent |-> None]
    ELSE IF Len(Split1(t)) # 2
    THEN [res |-> Append(st.res, <<"O">>), prev |-> "O", prev_ent |-> None]
    ELSE LET bi  == Split1(t)[1]
             ent == Split1(t)[2]
         IN IF bi = "B"
            THEN [res |-> Append(st.res, t), prev |-> "B", prev_ent |-> ent]
            ELSE IF bi = "I"
            THEN IF ValidInside(st.prev, st.prev_ent, ent)
                 THEN [res |-> Append(st.res, t), prev |-> "I",
                       prev_ent |-> st.prev_ent]
                 ELSE [res |-> Append(st.res, <<"B">> \o ent), prev |-> "B",
                       prev_ent |-> ent]
            ELSE [res |-> Append(st.res, t), prev |-> st.prev,
                  prev_ent |-> st.prev_ent]

RECURSIVE BioValidateLoop(_, _)
BioValidateLoop(st, rest) ==
    IF rest = <<>> THEN st
    ELSE BioValidateLoop(BioValidateStep(st, Head(rest)), Tail(rest))

bio_validate(ts) ==
    BioValidateLoop([res |-> <<>>, prev |-> "O", prev_ent |-> None], ts).res

(***************************************************************************)
(* stacked_crf.py: the bio_to_spans step of StackedCRF.predict_spans.      *)
(***************************************************************************)
\* the tag itself, its B-/I- prefix kept
FlatLabel_Whole(t) == t

\* the flat label of a tag: 'O', or the part after the first '-'
FlatLabel(t) == IF t = <<"O">> THEN <<"O">> ELSE Tail(t)

\* the merge loop that does not advance prev_end on a continued segment
BioToSpansStep_StaleEnd(st, token, t) ==
    LET flat == FlatLabel(t)
    IN IF st.cur_label = None
       THEN [st EXCEPT !.cur_label = flat, !.cur_start = token.a,
                       !.prev_end = token.b]
       ELSE IF flat = st.cur_label
       THEN st
       ELSE [spans     |-> Append(st.spans,
                              <<st.cur_start, st.prev_end, st.cur_label>>),
             cur_label |-> flat,
             cur_start |-> token.a,
             prev_end  |-> token.b]

\* one iteration of the merge loop; st = [spans, cur_label, cur_start, prev_end]
BioToSpansStep(st, token, t) ==
    LET flat == FlatLabel(t)
    IN IF st.cur_label = None
       THEN [st EXCEPT !.cur_label = flat, !.cur_start = token.a,
                       !.prev_end = token.b]
       ELSE IF flat = st.cur_label
       THEN [st EXCEPT !.prev_end = token.b]
       ELSE [spans     |-> Append(st.spans,
                              <<st.cur_start, st.prev_end, st.cur_label>>),
             cur_label |-> flat,
             cur_start |-> token.a,
             prev_end  |-> token.b]

\* the loop over zip(sent, tags), then the finalisation
RECURSIVE BioToSpansLoop(_, _, _, _)
BioToSpansLoop(st, sent, ts, i) ==
    IF i > Min2(Len(sent), Len(ts))
    THEN IF st.cur_label # None
         THEN Append(st.spans, <<st.cur_start, st.prev_end, st.cur_label>>)
         ELSE st.spans
    ELSE BioToSpansLoop(BioToSpansStep(st, sent[i], ts[i]), sent, ts, i + 1)

bio_to_spans(sent, ts) ==
    BioToSpansLoop([spans |-> <<>>, cur_label |-> None, cur_start |-> None,
                    prev_end |-> None], sent, ts, 1)

(***************************************************************************)
(* Inputs of the PostProcessor specification.                              *)
(***************************************************************************)
SpanDomain ==
    {Span(a, b, e) : a \in 0..MaxPos, b \in 0..MaxPos, e \in EntityTags}

\* candidate spans as the span sources cut them: non-empty slices
ProperSpans == {s \in SpanDomain : s.start < s.end}

\* the candidate lists of the unit tests in tests/test_bio_merge.py
ComplexScenario ==
    << Span(0, 5, <<"B", "TYPE">>), Span(6, 8, <<"B", "VOLUME">>),
       Span(7, 10, <<"B", "PERCENT">>), Span(11, 16, <<"B", "BRAND">>) >>

OneSpaceGapA == << Span(0, 3, <<"B", "VOLUME">>), Span(4, 6, <<"I", "VOLUME">>) >>

OneSpaceGapB == << Span(0, 5, <<"B", "VOLUME">>), Span(6, 8, <<"I", "VOLUME">>) >>

\* test_priority_order: (higher priority, lower priority) pairs
PriorityPairs ==
    { << Span(0, 3, <<"B", "PERCENT">>), Span(1, 4, <<"B", "VOLUME">>) >>,
      << Span(0, 3, <<"B", "VOLUME">>), Span(1, 4, <<"B", "BRAND">>) >>,
      << Span(0, 3, <<"B", "BRAND">>), Span(1, 4, <<"B", "TYPE">>) >> }

\* test_conflict_resolution
ConflictPair == << Span(0, 5, <<"B", "TYPE">>), Span(2, 7, <<"B", "VOLUME">>) >>

Reversed(s) == [i \in Idx(s) |-> s[Len(s) + 1 - i]]

\* the candidates predict_bio collects for a text such as "1 л сок 2 л":
\* the regex pieces of both volumes, then the TYPE span of the NER model
VolumeTypeVolume ==
    << Span(0, 1, <<"B", "VOLUME">>), Span(2, 3, <<"I", "VOLUME">>),
       Span(8, 9, <<"B", "VOLUME">>), Span(10, 11, <<"I", "VOLUME">>),
       Span(4, 7, <<"TYPE">>) >>

\* two entity groups whose spans alternate in the text: a volume, a type,
\* then a volume in two adjacent pieces
InterleavedGroups ==
    << Span(0, 1, <<"B", "VOLUME">>), Span(1, 3, <<"TYPE">>),
       Span(3, 4, <<"B", "VOLUME">>), Span(4, 5, <<"I", "VOLUME">>) >>

ExampleCandidateLists ==
    {ComplexScenario, OneSpaceGapA, OneSpaceGapB, ConflictPair,
     Reversed(ConflictPair), VolumeTypeVolume, InterleavedGroups}
        \cup PriorityPairs \cup {Reversed(p) : p \in PriorityPairs}

InitPost ==
    /\ pc = "start"
    /\ spans \in SeqsUpTo(ProperSpans, MaxSpans) \cup ExampleCandidateLists
    /\ ret = <<>>
    /\ tokens = <<>>
    /\ gold = <<>>
    /\ tags = <<>>
    /\ NoOthers

ResolveConflicts ==
    /\ pc = "start"
    /\ pc' = "resolve_conflicts"
    /\ ret' = resolve_conflicts(spans)
    /\ UNCHANGED <<spans, tokens, gold, tags, others>>

ValidateBioSequence ==
    /\ pc = "start"
    /\ pc' = "validate_bio_sequence"
    /\ ret' = validate_bio_sequence(spans)
    /\ UNCHANGED <<spans, tokens, gold, tags, others>>

ProcessSpans ==
    /\ pc = "start"
    /\ pc' = "process_spans"
    /\ ret' = process_spans(spans)
    /\ UNCHANGED <<spans, tokens, gold, tags, others>>

NextPost == ResolveConflicts \/ ValidateBioSequence \/ ProcessSpans

SpecPost == InitPost /\ [][NextPost]_vars

(***************************************************************************)
(* Vocabulary of the claims about the PostProcessor.                       *)
(***************************************************************************)
\* the half-open character ranges [a.start, a.end) and [b.start, b.end)
\* have a character in common
RangesOverlap(a, b) == Max2(a.start, b.start) < Min2(a.end, b.end)

\* the entity name of a tag or label: its last piece
EntityName(e) == e[Len(e)]

\* PERCENT > VOLUME > BRAND > TYPE
Rank(e) ==
    CASE EntityName(e) = "PERCENT" -> 4
      [] EntityName(e) = "VOLUME"  -> 3
      [] EntityName(e) = "BRAND"   -> 2
      [] EntityName(e) = "TYPE"    -> 1
      [] OTHER                     -> 0

Count(s, x) == Cardinality({i \in Idx(s) : s[i] = x})

SameBag(s, t) ==
    /\ Len(s) = Len(t)
    /\ \A i \in Idx(s) : Count(s, s[i]) = Count(t, s[i])

\* the (start, end, text) of the spans of a list
Places(s) == [i \in Idx(s) |-> <<s[i].start, s[i].end, s[i].text>>]

SortedByStart(s) == \A i \in 1..(Len(s) - 1) : s[i].start <= s[i + 1].start

\* x is an element of the list s
InList(x, s) == \E i \in Idx(s) : s[i] = x

(***************************************************************************)
(* C2.  The list returned by resolve_conflicts contains no two spans whose *)
(* half-open character ranges overlap.                                     *)
(***************************************************************************)
C2_NoOverlap ==
    pc = "resolve_conflicts" =>
        \A i, j \in Idx(ret) : i < j => ~RangesOverlap(ret[i], ret[j])

\* a call in which an accepted span was replaced and two spans were returned
C2_Witness ==
    /\ pc = "resolve_conflicts"
    /\ Len(ret) >= 2
    /\ \E i, j \in Idx(spans) :
          /\ RangesOverlap(spans[i], spans[j])
          /\ Rank(spans[i].entity) < Rank(spans[j].entity)
          /\ spans[i].start <= spans[j].start
          /\ ~InList(spans[i], ret)
          /\ InList(spans[j], ret)

(***************************************************************************)
(* C3, as claimed.  For any two input candidates of resolve_conflicts      *)
(* whose ranges overlap, the one that survives in the result has strictly  *)
(* higher priority than the other.                                         *)
(***************************************************************************)
C3_Original ==
    pc = "resolve_conflicts" =>
        \A i, j \in Idx(spans) :
            (i # j /\ RangesOverlap(spans[i], spans[j]) /\ InList(spans[i], ret))
                => Rank(spans[i].entity) > Rank(spans[j].entity)

(***************************************************************************)
(* C3, amended.  For candidates with start < end: given exactly two        *)
(* overlapping candidates the result is exactly the higher-priority one,   *)
(* whatever their order, and when the two have the same priority it is the *)
(* one that starts first (the first of the list on equal starts).  For any *)
(* input, a candidate missing from the result overlaps another input       *)
(* candidate of at least its own priority.                                 *)
(***************************************************************************)
C3_Amended ==
    (/\ pc = "resolve_conflicts"
     /\ \A i \in Idx(spans) : spans[i].start < spans[i].end) =>
        /\ (Len(spans) = 2 /\ RangesOverlap(spans[1], spans[2])) =>
              LET r1 == Rank(spans[1].entity)
                  r2 == Rank(spans[2].entity)
              IN ret = IF r1 > r2 THEN <<spans[1]>>
                       ELSE IF r2 > r1 THEN <<spans[2]>>
                       ELSE IF spans[2].start < spans[1].start
                            THEN <<spans[2]>>
                            ELSE <<spans[1]>>
        /\ \A i \in Idx(spans) :
              ~InList(spans[i], ret) =>
                 \E j \in Idx(spans) :
                    /\ j # i
                    /\ RangesOverlap(spans[i], spans[j])
                    /\ Rank(spans[j].entity) >= Rank(spans[i].entity)

\* two overlapping candidates, the lower-priority one first in the list
C3_Witness ==
    /\ pc = "resolve_conflicts"
    /\ Len(spans) = 2
    /\ RangesOverlap(spans[1], spans[2])
    /\ Rank(spans[1].entity) < Rank(spans[2].entity)
    /\ ret = <<spans[2]>>

C5_OneSpaceGapKeepsI ==
    (pc = "validate_bio_sequence" /\ spans \in {OneSpaceGapA, OneSpaceGapB}) =>
        /\ Len(ret) = 2
        /\ ret[1].entity = <<"B", "VOLUME">>
        /\ ret[2].entity = <<"I", "VOLUME">>

C7_ProcessSpans ==
    pc = "process_spans" =>
        /\ SortedByStart(ret)
        /\ SameBag(Places(ret), Places(resolve_conflicts(spans)))
        /\ \A k \in Idx(ret) : \E i \in Idx(spans) :
              /\ Places(ret)[k] = Places(spans)[i]
              /\ EntityName(ret[k].entity) = EntityName(spans[i].entity)
        /\ spans = <<>> => ret = <<>>
        /\ Len(spans) = 1 =>
              ret = << Span(spans[1].start, spans[1].end,
                            <<"B", EntityName(spans[1].entity)>>) >>

\* a call whose final sort reordered the spans of two entity groups
C7_Witness ==
    /\ pc = "process_spans"
    /\ Len(ret) >= 2
    /\ ret # validate_bio_sequence(resolve_conflicts(spans))

\* the candidates at the other positions of the input list
OtherCandidates(i) == {spans[j] : j \in Idx(spans) \ {i}}

\* the candidate at position i of the input is missing from the result
Discarded(i) == ~InList(spans[i], ret)

C26_Original ==
    pc = "resolve_conflicts" =>
        \A i \in Idx(spans) :
            Discarded(i) => \E k \in Idx(ret) : RangesOverlap(spans[i], ret[k])

(***************************************************************************)
(* C26, amended.  Every candidate that resolve_conflicts discards overlaps *)
(* a span of the returned result, or it overlaps another discarded         *)
(* candidate of at least its own priority and the result holds a span of   *)
(* strictly higher priority than its own.                                  *)
(***************************************************************************)
C26_Amended ==
    pc = "resolve_conflicts" =>
        \A i \in Idx(spans) :
            Discarded(i) =>
                \/ \E k \in Idx(ret) : RangesOverlap(spans[i], ret[k])
                \/ /\ \E j \in Idx(spans) \ {i} :
                         /\ Discarded(j)
                         /\ RangesOverlap(spans[i], spans[j])
                         /\ Rank(spans[j].entity) >= Rank(spans[i].entity)
                   /\ \E k \in Idx(ret) :
                         Rank(ret[k].entity) > Rank(spans[i].entity)

\* a candidate rejected against a span that was replaced afterwards by a
\* span it does not overlap
C26_Witness ==
    /\ pc = "resolve_conflicts"
    /\ Len(spans) = 3
    /\ Len(ret) = 1
    /\ \E i \in Idx(spans) :
          /\ Discarded(i)
          /\ ~RangesOverlap(spans[i], ret[1])

\* the tag of the span continues an entity
IsInside(s) == Len(s.entity) = 2 /\ s.entity[1] = "I"

InitValidate ==
    /\ pc = "start"
    /\ tags \in SeqsUpTo(TAGS, MaxTags)
    /\ spans = <<>>
    /\ ret = <<>>
    /\ tokens = <<>>
    /\ gold = <<>>
    /\ NoOthers

\* tags = bio_validate(tags), as StackedCRF.predict calls it
BioValidate ==
    /\ pc = "start"
    /\ pc' = "bio_validate"
    /\ ret' = bio_validate(tags)
    /\ UNCHANGED <<spans, tokens, gold, tags, others>>

NextValidate == BioValidate

SpecValidate == InitValidate /\ [][NextValidate]_vars

(***************************************************************************)
(* spans_to_bio and bio_to_spans: the specification SpecCodec.             *)
(***************************************************************************)
\* the token lists tokenize_with_offsets can return for a text of at most
\* MaxPos characters, all tokens starting at or after offset p: non-empty,
\* left to right, never overlapping
RECURSIVE TokenSeqsFrom(_)
TokenSeqsFrom(p) ==
    {<<>>} \cup
    UNION { UNION { { <<Token(a, b)>> \o rest : rest \in TokenSeqsFrom(b) } :
                    b \in (a + 1)..MaxPos } :
            a \in p..(MaxPos - 1) }

\* gold labels as the training data writes them: bare, B-/I- prefixed, 'O'
GoldLabels == { <<"BRAND">>, <<"I", "BRAND">>, <<"B", "VOLUME">>, <<"O">> }

GoldSpans ==
    { <<a, b, t>> : a \in 0..(MaxPos - 1), b \in 1..MaxPos, t \in GoldLabels }

ProperGoldSpans == {g \in GoldSpans : g[1] < g[2]}

\* the example of the specification: "молоко 1л 3.5%"
MilkTokens == << Token(0, 6), Token(7, 9), Token(10, 14) >>

MilkGold == << <<7, 9, <<"VOLUME">>>>, <<10, 14, <<"PERCENT">>>> >>

InitCodec ==
    /\ pc = "start"
    /\ \/ /\ tokens \in TokenSeqsFrom(0)
          /\ gold \in SeqsUpTo(ProperGoldSpans, MaxGold)
       \/ /\ tokens = MilkTokens
          /\ gold = MilkGold
    /\ tags = <<>>
    /\ spans = <<>>
    /\ ret = <<>>
    /\ NoOthers

\* y = spans_to_bio(s, spans), as StackedCRF.fit and build_lexicons call it
SpansToBio ==
    /\ pc = "start"
    /\ pc' = "spans_to_bio"
    /\ tags' = spans_to_bio(tokens, gold, TAGS)
    /\ UNCHANGED <<spans, ret, tokens, gold, others>>

\* the merge of a tag sequence into spans, on the tags of the sentence
BioToSpans ==
    /\ pc = "spans_to_bio"
    /\ pc' = "bio_to_spans"
    /\ ret' = bio_to_spans(tokens, tags)
    /\ UNCHANGED <<spans, tokens, gold, tags, others>>

NextCodec == SpansToBio \/ BioToSpans

SpecCodec == InitCodec /\ [][NextCodec]_vars

(***************************************************************************)
(* Vocabulary of the claims about the BIO codec.                           *)
(***************************************************************************)
\* the four entity labels
Entities == {"BRAND", "TYPE", "VOLUME", "PERCENT"}

\* the nine-symbol tagset: O, and B-<E>, I-<E> for the four entities
NineTags == {<<"O">>} \cup {<<bi, E>> : bi \in {"B", "I"}, E \in Entities}

\* a gold label with its B-/I- prefix, if any, removed
StripBI(label) ==
    IF Len(label) >= 2 /\ label[1] \in {"B", "I"} THEN Tail(label) ELSE label

\* the character ranges [a, b) and [sa, sb) have nonzero overlap
NonzeroOverlap(a, b, sa, sb) == Max2(a, sa) < Min2(b, sb)

\* the gold spans overlapping token i, by list position
GoldOver(i) ==
    {k \in Idx(gold) :
        NonzeroOverlap(tokens[i].a, tokens[i].b, gold[k][1], gold[k][2])}

\* the entity of token i: that of the first gold span, in list order, that
\* overlaps it, without prefix; None when no gold span overlaps it
EntityOfToken(i) ==
    IF GoldOver(i) = {} THEN None
    ELSE StripBI(gold[CHOOSE k \in GoldOver(i) :
                         \A m \in GoldOver(i) : k <= m][3])

\* the BIO grammar: every I-<E> directly follows B-<E> or I-<E> of the same E
GrammarOK(ts) ==
    \A i \in Idx(ts) :
        (Len(ts[i]) = 2 /\ ts[i][1] = "I") =>
            /\ i > 1
            /\ ts[i - 1] \in {<<"B", ts[i][2]>>, <<"I", ts[i][2]>>}

(***************************************************************************)
(* C1.  In every tag sequence returned by bio_validate, an I-<E> tag       *)
(* appears only directly after B-<E> or I-<E> of the same E: never at      *)
(* position 0 and never directly after O.                                  *)
(***************************************************************************)
C1_NoOrphanInside == pc = "bio_validate" => GrammarOK(ret)

\* a call that rewrote an orphan I- tag and kept a well-placed one
C1_Witness ==
    /\ pc = "bio_validate"
    /\ ret # tags
    /\ \E i \in Idx(ret) : ret[i][1] = "I"
    /\ \E i \in Idx(tags) : tags[i][1] = "I" /\ ret[i][1] = "B"

\* the positions at which the result differs from the argument
Rewritten == {i \in Idx(tags) : ret[i] # tags[i]}

\* the result has the length of the argument and differs from it only
\* where an I-<E> became B-<E>; validating the result again returns it
OnlyInsideToBegin ==
    pc = "bio_validate" =>
        /\ Len(ret) = Len(tags)
        /\ \A i \in Rewritten :
              /\ Len(tags[i]) = 2 /\ tags[i][1] = "I"
              /\ ret[i] = <<"B", tags[i][2]>>
        /\ bio_validate(ret) = ret

(***************************************************************************)
(* C28.  bio_validate on a sequence over the nine-symbol tagset returns a  *)
(* new list of the same length without modifying its argument, changes a   *)
(* tag only from I-<E> to B-<E> of the same E (O and B- tags are never     *)
(* changed), and is idempotent: applying it to its own result changes      *)
(* nothing.                                                                *)
(***************************************************************************)
C28_ValidateIsProjection == []OnlyInsideToBegin /\ [][tags' = tags]_vars

\* a call that rewrote two I- tags and left an O, a B- and an I- tag alone
C28_Witness ==
    /\ pc = "bio_validate"
    /\ Cardinality(Rewritten) = 2
    /\ \E i \in Idx(tags) \ Rewritten : tags[i][1] = "I"
    /\ \E i \in Idx(tags) : tags[i] = <<"O">>

(***************************************************************************)
(* C8.  spans_to_bio gives each token the entity of the first gold span    *)
(* (in list order) whose character range has nonzero overlap with the      *)
(* token, B-/I- prefix stripped; it emits B-<E> when the previous token    *)
(* has a different entity or none, I-<E> when the previous token has the   *)
(* same entity, and O for a token that overlaps no gold span.  For tokens  *)
(* [0,6), [7,9), [10,14) and gold spans (7,9,VOLUME), (10,14,PERCENT) the  *)
(* result is O, B-VOLUME, B-PERCENT.                                       *)
(***************************************************************************)
C8_TokenTags ==
    pc = "spans_to_bio" =>
        /\ Len(tags) = Len(tokens)
        /\ \A i \in Idx(tokens) :
              LET e    == EntityOfToken(i)
                  prev == IF i = 1 THEN None ELSE EntityOfToken(i - 1)
              IN /\ e = None => tags[i] = <<"O">>
                 /\ (e # None /\ e \in {<<E>> : E \in Entities}) =>
                       tags[i] = IF prev = e THEN <<"I">> \o e
                                 ELSE <<"B">> \o e
        /\ (tokens = MilkTokens /\ gold = MilkGold) =>
              tags = << <<"O">>, <<"B", "VOLUME">>, <<"B", "PERCENT">> >>

\* a token under two gold spans of different entities, and an I- tag emitted
C8_Witness ==
    /\ pc = "spans_to_bio"
    /\ \E i \in Idx(tokens) : \E k, m \in GoldOver(i) :
          StripBI(gold[k][3]) # StripBI(gold[m][3])
    /\ \E i \in Idx(tags) : tags[i][1] = "I"

(***************************************************************************)
(* C9.  Every sequence returned by spans_to_bio has one tag per token,     *)
(* contains only tags of the fixed tagset (a tag built from a label        *)
(* outside the four entities is coerced to O), and satisfies the BIO       *)
(* grammar, i.e. bio_validate leaves it unchanged, for any tokens and any  *)
(* gold spans including overlapping ones.                                  *)
(***************************************************************************)
C9_TagsetAndGrammar ==
    pc = "spans_to_bio" =>
        /\ Len(tags) = Len(tokens)
        /\ \A i \in Idx(tags) : tags[i] \in NineTags
        /\ \A i \in Idx(tokens) :
              (EntityOfToken(i) \notin {<<E>> : E \in Entities}) =>
                  tags[i] = <<"O">>
        /\ GrammarOK(tags)
        /\ bio_validate(tags) = tags

\* overlapping gold spans, one token coerced to O, another tagged B-
C9_Witness ==
    /\ pc = "spans_to_bio"
    /\ \E k, m \in Idx(gold) :
          k # m /\ NonzeroOverlap(gold[k][1], gold[k][2], gold[m][1], gold[m][2])
    /\ \E i \in Idx(tokens) :
          /\ EntityOfToken(i) # None
          /\ EntityOfToken(i) \notin {<<E>> : E \in Entities}
          /\ tags[i] = <<"O">>
    /\ \E i \in Idx(tags) : tags[i][1] = "B"

(***************************************************************************)
(* Round trip.                                                             *)
(***************************************************************************)
\* the gold span is not empty, starts where a token starts and ends where
\* a token ends
Aligned(g) ==
    /\ g[1] < g[2]
    /\ \E i \in Idx(tokens) : tokens[i].a = g[1]
    /\ \E i \in Idx(tokens) : tokens[i].b = g[2]

GoldAligned == \A k \in Idx(gold) : Aligned(gold[k])

GoldDisjoint ==
    \A k, m \in Idx(gold) :
        k # m => ~NonzeroOverlap(gold[k][1], gold[k][2], gold[m][1], gold[m][2])

\* every gold label names one of the four entities, bare or prefixed
GoldLabelsAreEntities ==
    \A k \in Idx(gold) : StripBI(gold[k][3]) \in {<<E>> : E \in Entities}

\* no gold span ends on the token right before the first token of another
\* gold span of the same entity
NoSameEntityNeighbours ==
    \A k, m \in Idx(gold) :
        (k # m /\ StripBI(gold[k][3]) = StripBI(gold[m][3])) =>
            ~\E i \in 1..(Len(tokens) - 1) :
                tokens[i].b = gold[k][2] /\ tokens[i + 1].a = gold[m][1]

\* the gold spans with the prefix removed from their labels
FlatGold == [k \in Idx(gold) |-> <<gold[k][1], gold[k][2], StripBI(gold[k][3])>>]

\* token i lies inside the span r = (start, end, label)
TokenIn(i, r) == r[1] <= tokens[i].a /\ tokens[i].b <= r[2]

(***************************************************************************)
(* C10, as claimed.  For tokens and non-overlapping gold spans whose       *)
(* boundaries coincide with token boundaries, spans_to_bio followed by the *)
(* bio_to_spans step of predict_spans reproduces exactly the original gold *)
(* spans, with the same boundaries and labels.                             *)
(***************************************************************************)
C10_Original ==
    (pc = "bio_to_spans" /\ GoldAligned /\ GoldDisjoint) => ret = gold

(***************************************************************************)
(* C10, amended.  For tokens and non-empty, non-overlapping gold spans     *)
(* whose boundaries coincide with token boundaries, whose labels name one  *)
(* of the four entities (bare or with a B-/I- prefix) and of which no two  *)
(* of the same entity cover consecutive tokens, the round trip returns,    *)
(* besides one O span for each maximal run of tokens that no gold span     *)
(* covers, exactly the gold spans in start order, with the same boundaries *)
(* and with the B-/I- prefix removed from the labels.                      *)
(***************************************************************************)
C10_Amended ==
    (/\ pc = "bio_to_spans"
     /\ GoldAligned
     /\ GoldDisjoint
     /\ GoldLabelsAreEntities
     /\ NoSameEntityNeighbours) =>
        LET nonO == SelectSeq(ret, LAMBDA r : r[3] # <<"O">>)
        IN /\ SameBag(nonO, FlatGold)
           /\ \A k \in 1..(Len(ret) - 1) :
                 /\ ret[k][1] < ret[k + 1][1]
                 /\ ~(ret[k][3] = <<"O">> /\ ret[k + 1][3] = <<"O">>)
           /\ \A k \in Idx(ret) :
                 ret[k][3] = <<"O">> =>
                    \A i \in Idx(tokens) : TokenIn(i, ret[k]) => GoldOver(i) = {}
           /\ \A i \in Idx(tokens) :
                 GoldOver(i) = {} =>
                    \E k \in Idx(ret) : ret[k][3] = <<"O">> /\ TokenIn(i, ret[k])

\* a round trip over a prefixed gold label, with an uncovered token
C10_Witness ==
    /\ pc = "bio_to_spans"
    /\ GoldAligned /\ GoldDisjoint /\ GoldLabelsAreEntities
    /\ NoSameEntityNeighbours
    /\ \E k \in Idx(gold) : Len(gold[k][3]) = 2
    /\ \E k \in Idx(ret) : ret[k][3] = <<"O">>
    /\ \E k \in Idx(ret) : ret[k][3] # <<"O">>

(***************************************************************************)
(* Texts.  A text is a sequence of characters; one character stands for    *)
(* each class the tokenizer patterns tell apart.                           *)
(***************************************************************************)
\* the longest text drawn
MaxText == 3

\* " " whitespace; "1" a digit; "." one of [.,]; "%"; "_" a word character
\* that is neither digit nor Latin/Cyrillic letter; "a", "A", "g" letters
Chars == {" ", "1", ".", "%", "_", "a", "A", "g"}

\* \s
Spaces == {" "}

\* \d
Digits == {"1"}

\* [A-Za-zА-Яа-яЁё]
Letters == {"a", "A", "g", "m", "l", "L"}

\* \w
WordChars == Digits \cup Letters \cup {"_"}

\* [.,]
Seps == {"."}

\* \S
NonSpaces == Chars \ Spaces

\* str.lower() of one character
LowerChar(c) == IF c = "A" THEN "a" ELSE IF c = "L" THEN "l" ELSE c

\* str.lower()
Lower(w) == [i \in Idx(w) |-> LowerChar(w[i])]

\* the first index from i on (Len + 1 if none) whose character is not of
\* the class: where a greedy Class+ or Class* that starts at i ends
RECURSIVE RunEnd(_, _, _)
RunEnd(t, i, class) ==
    IF i <= Len(t) /\ t[i] \in class THEN RunEnd(t, i + 1, class) ELSE i

\* the index after an optional character of the class at index i
Optional(t, i, class) == IF i <= Len(t) /\ t[i] \in class THEN i + 1 ELSE i

\* the index after the match of \d+[.,]?\d*%? that starts at index i; i when
\* there is none
NumberEnd(t, i) ==
    IF i <= Len(t) /\ t[i] \in Digits
    THEN Optional(t, RunEnd(t, Optional(t, RunEnd(t, i, Digits), Seps),
                            Digits), {"%"})
    ELSE i

\* the index after the match of the pattern of tokenize_with_offsets at
\* index i, alternatives tried in order; i when nothing matches there
MatchEnd(t, i) ==
    IF NumberEnd(t, i) > i THEN NumberEnd(t, i)
    ELSE IF RunEnd(t, i, Letters) > i THEN RunEnd(t, i, Letters)
    ELSE IF i <= Len(t) /\ t[i] \notin Spaces /\ t[i] \notin WordChars THEN i + 1
    ELSE i

\* re.finditer from index i on: (m.group(0), m.start(), m.end()) per match
RECURSIVE FindTokens(_, _)
FindTokens(t, i) ==
    IF i > Len(t) THEN <<>>
    ELSE IF MatchEnd(t, i) > i
         THEN << [tok |-> SubSeq(t, i, MatchEnd(t, i) - 1),
                  a |-> i - 1, b |-> MatchEnd(t, i) - 1] >>
              \o FindTokens(t, MatchEnd(t, i))
         ELSE FindTokens(t, i + 1)

tokenize_with_offsets(t) == FindTokens(t, 1)

\* re.finditer of \S+ from index i on: Token(text, start, end) per match
RECURSIVE FindRuns(_, _)
FindRuns(t, i) ==
    IF i > Len(t) THEN <<>>
    ELSE IF t[i] \in Spaces THEN FindRuns(t, i + 1)
    ELSE << [text |-> SubSeq(t, i, RunEnd(t, i, NonSpaces) - 1),
             start |-> i - 1, end |-> RunEnd(t, i, NonSpaces) - 1] >>
         \o FindRuns(t, RunEnd(t, i, NonSpaces))

\* SimpleTokenizer.tokenize
tokenize(t) == FindRuns(t, 1)

(***************************************************************************)
(* The two tokenizers on texts: the specification SpecTokenize.            *)
(***************************************************************************)
Texts == SeqsUpTo(Chars, MaxText)

InitTokenize ==
    /\ pc = "start"
    /\ text \in Texts
    /\ spans = <<>>
    /\ ret = <<>>
    /\ tokens = <<>>
    /\ gold = <<>>
    /\ tags = <<>>
    /\ corpus = <<>>
    /\ model = <<>>
    /\ fit = <<>>
    /\ service = <<>>
    /\ probs_list = <<>>

\* SimpleTokenizer().tokenize(text)
Tokenize ==
    /\ pc = "start"
    /\ pc' = "tokenize"
    /\ ret' = tokenize(text)
    /\ UNCHANGED <<spans, tokens, gold, tags, others>>

\* tokenize_with_offsets(text)
TokenizeWithOffsets ==
    /\ pc = "start"
    /\ pc' = "tokenize_with_offsets"
    /\ tokens' = tokenize_with_offsets(text)
    /\ UNCHANGED <<spans, ret, gold, tags, others>>

NextTokenize == Tokenize \/ TokenizeWithOffsets

SpecTokenize == InitTokenize /\ [][NextTokenize]_vars

\* the places (start, end, text) of a token list, whichever tokenizer made it
TokenPlaces(ts) ==
    IF pc = "tokenize"
    THEN [i \in Idx(ts) |-> <<ts[i].start, ts[i].end, ts[i].text>>]
    ELSE [i \in Idx(ts) |-> <<ts[i].a, ts[i].b, ts[i].tok>>]

\* text[start:end]
Slice(t, start, end) == SubSeq(t, start + 1, end)

\* the token list ps is ordered, disjoint, true to the text and contains
\* every non-whitespace character of t exactly once
PartitionsNonSpace(t, ps) ==
    /\ \A i \in Idx(ps) :
          /\ 0 <= ps[i][1] /\ ps[i][1] < ps[i][2] /\ ps[i][2] <= Len(t)
          /\ Slice(t, ps[i][1], ps[i][2]) = ps[i][3]
    /\ \A i \in 1..(Len(ps) - 1) :
          /\ ps[i][1] < ps[i + 1][1]
          /\ ps[i][2] <= ps[i + 1][1]
    /\ \A c \in Idx(t) :
          IF t[c] \in Spaces
          THEN \A i \in Idx(ps) : ~(ps[i][1] < c /\ c <= ps[i][2])
          ELSE Cardinality({i \in Idx(ps) : ps[i][1] < c /\ c <= ps[i][2]}) = 1

(***************************************************************************)
(* C18, as claimed.  For every text, the tokens of SimpleTokenizer.tokenize *)
(* and of tokenize_with_offsets are in strictly increasing offset order,   *)
(* pairwise non-overlapping, satisfy text[start:end] == token text, and    *)
(* together contain every non-whitespace character of the text exactly     *)
(* once.                                                                   *)
(***************************************************************************)
C18_TokensPartitionText ==
    /\ pc = "tokenize" => PartitionsNonSpace(text, TokenPlaces(ret))
    /\ pc = "tokenize_with_offsets" => PartitionsNonSpace(text, TokenPlaces(tokens))

\* the part of C18 about SimpleTokenizer alone
C18_SimpleTokenizerPart ==
    pc = "tokenize" => PartitionsNonSpace(text, TokenPlaces(ret))

(***************************************************************************)
(* features.py: parse_spans and build_lexicons.                            *)
(***************************************************************************)
\* a row of train_df: the text and the spans column, a string that either
\* is the literal of the span list val (literal) or does not parse
Row(t, literal, val) == [text |-> t, spans |-> [literal |-> literal, val |-> val]]

\* parse_spans: the list the literal denotes, [] for anything else
parse_spans(spans_str) == IF spans_str.literal THEN spans_str.val ELSE <<>>

\* tag.endswith(entity)
EndsWith(tag, entity) == tag[Len(tag)] = entity

\* RE_UNIT.fullmatch(lw): the token is a unit word
RE_UNIT_fullmatch(lw) == lw = <<"g">>

\* the index after the match of ^\d+([.,]\d+)? in lw; 1 when there is none
NumPrefixEnd(lw) ==
    LET d == RunEnd(lw, 1, Digits)
    IN IF d > 1 /\ d + 1 <= Len(lw) /\ lw[d] \in Seps /\ lw[d + 1] \in Digits
       THEN RunEnd(lw, d + 1, Digits)
       ELSE d

\* re.sub(r'^\d+([.,]\d+)?', '', lw)
StripNumPrefix(lw) == SubSeq(lw, NumPrefixEnd(lw), Len(lw))

\* RE_NUM_UNIT_STUCK.fullmatch(lw): a number with a unit word stuck to it
RE_NUM_UNIT_STUCK_fullmatch(lw) ==
    NumPrefixEnd(lw) > 1 /\ RE_UNIT_fullmatch(StripNumPrefix(lw))

\* the accumulators before the first row
EmptyLexicons == [brand |-> {}, type |-> {}, unit |-> {}]

\* the inner loop adding the token as written, not lower-cased
LexiconToken_NoLower(lex, w, tag) ==
    [brand |-> lex.brand \cup (IF EndsWith(tag, "BRAND") THEN {w} ELSE {}),
     type |-> lex.type \cup (IF EndsWith(tag, "TYPE") THEN {w} ELSE {}),
     unit |-> lex.unit
                \cup (IF RE_UNIT_fullmatch(w) THEN {w} ELSE {})
                \cup (IF RE_NUM_UNIT_STUCK_fullmatch(w)
                      THEN {StripNumPrefix(w)} ELSE {})]

\* one token of a row with its tag: the four ifs of the inner loop
LexiconToken(lex, w, tag) ==
    LET lw == Lower(w)
    IN [brand |-> lex.brand \cup (IF EndsWith(tag, "BRAND") THEN {lw} ELSE {}),
        type |-> lex.type \cup (IF EndsWith(tag, "TYPE") THEN {lw} ELSE {}),
        unit |-> lex.unit
                   \cup (IF RE_UNIT_fullmatch(lw) THEN {lw} ELSE {})
                   \cup (IF RE_NUM_UNIT_STUCK_fullmatch(lw)
                         THEN {StripNumPrefix(lw)} ELSE {})]

\* for (w,_,_), tag in zip(toks, bio), from token i on
RECURSIVE LexiconTokens(_, _, _, _)
LexiconTokens(lex, toks, bio, i) ==
    IF i > Len(toks) \/ i > Len(bio) THEN lex
    ELSE LexiconTokens(LexiconToken(lex, toks[i].tok, bio[i]), toks, bio, i + 1)

\* the body of the loop over the rows
LexiconRow(lex, row) ==
    LET toks == tokenize_with_offsets(row.text)
        bio == spans_to_bio(toks, parse_spans(row.spans), TAGS)
    IN LexiconTokens(lex, toks, bio, 1)

\* for _, row in train_df.iterrows(), from row i on
RECURSIVE LexiconRows(_, _, _)
LexiconRows(lex, train_df, i) ==
    IF i > Len(train_df) THEN lex
    ELSE LexiconRows(LexiconRow(lex, train_df[i]), train_df, i + 1)

build_lexicons(train_df) == LexiconRows(EmptyLexicons, train_df, 1)

(***************************************************************************)
(* build_lexicons on training corpora: the specification SpecLexicons.     *)
(***************************************************************************)
\* the most rows of a corpus
MaxRows == 2

\* the texts of the corpus rows: a word, the word capitalised, a unit word,
\* two words, a number with its unit
RowTexts == { <<"a">>, <<"A">>, <<"g">>, <<"a", " ", "A">>, <<"1", "g">> }

\* the labels of the gold spans of the corpus
RowLabels == { <<"BRAND">>, <<"TYPE">> }

\* the character ranges of the gold spans of a text: one of its tokens, or
\* the whole text
RowRanges(t) ==
    { <<tk.a, tk.b>> : tk \in {tokenize_with_offsets(t)[i] : i \in Idx(tokenize_with_offsets(t))} }
        \cup { <<0, Len(t)>> }

\* the rows of a text: the spans column holds no span, one span, or is not
\* a literal
RowsOf(t) ==
    { Row(t, TRUE, <<>>), Row(t, FALSE, <<>>) } \cup
    { Row(t, TRUE, << <<r[1], r[2], l>> >>) : r \in RowRanges(t), l \in RowLabels }

CorpusRows == UNION { RowsOf(t) : t \in RowTexts }

\* one word labelled BRAND in one row and TYPE, capitalised, in the next; a
\* brand and a type in one text; a unit word inside a TYPE span
ExampleCorpora ==
    { << Row(<<"a">>, TRUE, << <<0, 1, <<"BRAND">>>> >>),
         Row(<<"A">>, TRUE, << <<0, 1, <<"TYPE">>>> >>) >>,
      << Row(<<"a", " ", "A">>, TRUE,
             << <<0, 1, <<"BRAND">>>>, <<2, 3, <<"TYPE">>>> >>) >>,
      << Row(<<"a", " ", "1", "g">>, TRUE, << <<0, 4, <<"TYPE">>>> >>),
         Row(<<"A", "g">>, FALSE, <<>>) >> }

InitLexicons ==
    /\ pc = "start"
    /\ \/ \E n \in 0..MaxRows : corpus \in [1..n -> CorpusRows]
       \/ corpus \in ExampleCorpora
    /\ spans = <<>>
    /\ ret = <<>>
    /\ tokens = <<>>
    /\ gold = <<>>
    /\ tags = <<>>
    /\ text = <<>>
    /\ model = <<>>
    /\ fit = <<>>
    /\ service = <<>>
    /\ probs_list = <<>>

\* lex = build_lexicons(tmp_df)
BuildLexicons ==
    /\ pc = "start"
    /\ pc' = "build_lexicons"
    /\ ret' = build_lexicons(corpus)
    /\ UNCHANGED <<spans, tokens, gold, tags, others>>

NextLexicons == BuildLexicons

SpecLexicons == InitLexicons /\ [][NextLexicons]_vars

(***************************************************************************)
(* Vocabulary of the claim about the lexicons.                             *)
(***************************************************************************)
\* the lower-cased forms of the tokens of a corpus row whose tag, B- or I-,
\* is in the set
RowForms(row, tagset) ==
    LET toks == tokenize_with_offsets(row.text)
        bio == spans_to_bio(toks,
                            IF row.spans.literal THEN row.spans.val ELSE <<>>,
                            TAGS)
    IN { Lower(toks[i].tok) : i \in {j \in Idx(toks) : bio[j] \in tagset} }

\* the lower-cased forms of the corpus tokens tagged B-<E> or I-<E>
TaggedForms(E) ==
    UNION { RowForms(corpus[r], {<<"B", E>>, <<"I", E>>}) : r \in Idx(corpus) }

\* the lower-cased forms of the corpus tokens that are unit words
UnitForms ==
    { f \in UNION { RowForms(corpus[r], TAGS) : r \in Idx(corpus) } :
        RE_UNIT_fullmatch(f) }

(***************************************************************************)
(* C16, as claimed.  The brand, type and unit sets returned by             *)
(* build_lexicons are pairwise disjoint for every training corpus: no      *)
(* surface form is a member of two of the three sets.                      *)
(***************************************************************************)
C16_Original ==
    pc = "build_lexicons" =>
        /\ ret.brand \cap ret.type = {}
        /\ ret.brand \cap ret.unit = {}
        /\ ret.type \cap ret.unit = {}

(***************************************************************************)
(* C16, amended.  build_lexicons returns as brand set exactly the          *)
(* lower-cased forms of the corpus tokens tagged B-BRAND or I-BRAND, as    *)
(* type set exactly those of the tokens tagged B-TYPE or I-TYPE, and as    *)
(* unit set exactly those of the tokens that are unit words.  A form is in *)
(* two of the sets exactly when it qualifies for both, so the sets are     *)
(* disjoint only for a corpus in which no form is tagged both BRAND and    *)
(* TYPE and no BRAND or TYPE token is a unit word.                         *)
(***************************************************************************)
C16_Amended ==
    pc = "build_lexicons" =>
        /\ ret.brand = TaggedForms("BRAND")
        /\ ret.type = TaggedForms("TYPE")
        /\ ret.unit = UnitForms

\* a corpus of two rows, one of them with a capitalised word, whose brand
\* and type sets share a form
C16_Witness ==
    /\ pc = "build_lexicons"
    /\ ret.brand \cap ret.type # {}
    /\ Len(corpus) = 2
    /\ \E r \in Idx(corpus) : corpus[r].text = <<"a", " ", "A">>

(***************************************************************************)
(* features.py: FeatureConfig, FeatureBuilder, feature_variant.            *)
(***************************************************************************)
\* FeatureConfig(use_lemma, window, add_context_bigrams)
FeatureConfig(use_lemma, window, add_context_bigrams) ==
    [use_lemma |-> use_lemma, window |-> window,
     add_context_bigrams |-> add_context_bigrams]

\* FeatureBuilder(lexicons, cfg); the default cfg is FeatureConfig()
FeatureBuilder(lexicons, cfg) == [lexicons |-> lexicons, cfg |-> cfg]

DefaultFeatureConfig == FeatureConfig(TRUE, 2, TRUE)

\* feature_variant(builder, kind): a builder on the same lexicons whose cfg
\* is set by the kind
feature_variant(builder, kind) ==
    FeatureBuilder(builder.lexicons,
        CASE kind = "A" -> FeatureConfig(FALSE, 1, FALSE)
          [] kind = "B" -> FeatureConfig(TRUE, 1, TRUE)
          [] kind = "C" -> FeatureConfig(TRUE, 2, TRUE)
          [] kind = "D" -> FeatureConfig(TRUE, 4, TRUE)
          [] OTHER -> builder.cfg)

(***************************************************************************)
(* stacked_crf.py: StackedCRF.__init__ and StackedCRF.fit.                 *)
(*                                                                         *)
(* Sentences are numbered from 1 (the code numbers them from 0).  A CRF    *)
(* object is the record of what made it: its variant, its fold, the fit    *)
(* call that created it, the sentences it was trained on.                  *)
(***************************************************************************)
\* the most sentences of a training set, the largest n_splits, the most
\* fit calls on one object
MaxSents == 3

MaxSplits == 3

MaxCalls == 2

\* for k in 'ABC'
Variants == <<"A", "B", "C">>

VariantSet == {"A", "B", "C"}

\* the elements of a set of numbers in ascending order
RECURSIVE Ascending(_)
Ascending(S) ==
    IF S = {} THEN <<>>
    ELSE LET m == CHOOSE x \in S : \A z \in S : x <= z
         IN <<m>> \o Ascending(S \ {m})

Range(q) == {q[i] : i \in Idx(q)}

\* the orders in which a shuffle can put n indices
Shuffles(n) ==
    {f \in [1..n -> 1..n] : \A i, j \in 1..n : f[i] = f[j] => i = j}

\* KFold: the first n % k folds hold n // k + 1 indices, the others n // k
FoldStart(n, k, j) == (j - 1) * (n \div k) + Min2(j - 1, n % k)

FoldSize(n, k, j) == (n \div k) + (IF j <= n % k THEN 1 ELSE 0)

\* fold j of KFold(n_splits = k, shuffle = True).split over n indices that
\* the seed shuffles into the order perm: (tr, va), each ascending
KFoldSplit(n, k, perm, j) ==
    LET test == {perm[q] : q \in (FoldStart(n, k, j) + 1)..
                                (FoldStart(n, k, j) + FoldSize(n, k, j))}
    IN [tr |-> Ascending((1..n) \ test), va |-> Ascending(test)]

\* StackedCRF(n_splits = n_splits, random_state = seed): the state after
\* __init__; random_state is kept as the order into which this seed
\* shuffles the indices of the training set
StackedCRF(n_splits, random_state) ==
    [n_splits |-> n_splits, random_state |-> random_state,
     base_builders |-> <<>>, base_models |-> <<>>,
     meta_builder |-> None, meta_model |-> None,
     train_sents |-> None, train_y |-> None]

\* lines 66-76: the builders A/B/C and the meta builder on fresh lexicons
WithBuilders(self, lex) ==
    [self EXCEPT
        !.base_builders =
            [k \in VariantSet |->
                feature_variant(FeatureBuilder(lex, DefaultFeatureConfig), k)],
        !.meta_builder = FeatureBuilder(lex, FeatureConfig(TRUE, 2, TRUE))]

\* the reset of line 82 left out: the lists of an earlier fit are kept
FreshBaseModels_Kept(old) ==
    IF old = <<>> THEN [k \in VariantSet |-> <<>>] ELSE old

\* line 82: self.base_models = {k: [] for k in 'ABC'}
FreshBaseModels(old) == [k \in VariantSet |-> <<>>]

\* line 81: oof_probs = {k: [None] * len(sents) for k in 'ABC'}
EmptyOof(n) == [k \in VariantSet |-> [i \in 1..n |-> None]]

\* the training set taken to be every sentence, the held-out ones included
TrainingSet_All(fold) == Ascending(Range(fold.tr) \cup Range(fold.va))

\* lines 87-89: X_tr and y_tr are taken over the sentences i in tr
TrainingSet(fold) == fold.tr

\* the labels of y over the sentences idxs (a sequence of indices): a
\* trained CRF knows these labels and no others
SeenLabels(idxs) ==
    UNION {Range(spans_to_bio(tokenize_with_offsets(corpus[idxs[q]].text),
                              corpus[idxs[q]].spans.val, TAGS)) :
           q \in DOMAIN idxs}

\* lines 93-97: the CRF of variant k trained in fold j of fit call c
FoldModel(k, j, c, fold) ==
    [variant |-> k, fold |-> j, call |-> c, train |-> TrainingSet(fold),
     labels |-> SeenLabels(TrainingSet(fold))]

\* lines 136-137: the meta CRF of fit call c; trained on every sentence
\* when meta_model.fit returned
MetaModel(c, trained) ==
    [call |-> c, fitted |-> trained,
     labels |-> IF trained THEN SeenLabels([i \in 1..Len(corpus) |-> i])
                ELSE {}]

\* lines 101-103: probs = crf.predict_marginals(X_va[k]), one list of
\* per-token distributions per held-out sentence, stored at oof_probs[k][i]
\* for the sentences i of va from position pos on; written counts the
\* assignments to each slot
RECURSIVE WriteOof(_, _, _, _, _, _)
WriteOof(oof, written, k, crf, va, pos) ==
    IF pos > Len(va) THEN [oof |-> oof, written |-> written]
    ELSE WriteOof(
            [oof EXCEPT ![k][va[pos]] =
                [by |-> crf,
                 len |-> Len(tokenize_with_offsets(corpus[va[pos]].text))]],
            [written EXCEPT ![k][va[pos]] = @ + 1],
            k, crf, va, pos + 1)

\* lines 106-107: for k in 'ABC': self.base_models[k].append(models_fold[k])
AppendFold(base_models, models_fold) ==
    [k \in VariantSet |-> Append(base_models[k], models_fold[k])]

\* lines 110-114: some oof_probs[k][i] is still None
OofIncomplete(oof) ==
    \E k \in VariantSet : \E i \in DOMAIN oof[k] : oof[k][i] = None

\* line 123: the lengths of the three OOF lists and of the meta features of
\* some sentence differ
TokenLengthMismatch(oof, n) ==
    \E i \in 1..n :
        LET n_tokens == Len(tokenize_with_offsets(corpus[i].text))
        IN ~(oof["A"][i].len = oof["B"][i].len /\ oof["B"][i].len = oof["C"][i].len
              /\ oof["C"][i].len = n_tokens)

(***************************************************************************)
(* StackedCRF.fit, step by step: the specification SpecFit.                *)
(***************************************************************************)
\* the training examples, a text with its gold spans each: sentence i of
\* a training set is one of two examples in turn
FitRow(i) ==
    IF i % 2 = 1
    THEN Row(<<"a", " ", "1", "g">>, TRUE,
             << <<0, 1, <<"BRAND">>>>, <<2, 4, <<"VOLUME">>>> >>)
    ELSE Row(<<"A", " ", "%">>, TRUE, << <<0, 1, <<"TYPE">>>> >>)

\* no fit call is running: the locals of fit do not exist
NoFit(calls) ==
    [call |-> calls, before |-> None, sents |-> None, y |-> None,
     fold |-> 0, k |-> 0, oof_probs |-> None, written |-> None,
     models_fold |-> None]

InitFit ==
    /\ pc = "constructed"
    /\ \E n \in 0..MaxSents : corpus = [i \in 1..n |-> FitRow(i)]
    /\ \E n_splits \in 1..MaxSplits : \E seed \in Shuffles(Len(corpus)) :
          model = StackedCRF(n_splits, seed)
    /\ fit = NoFit(0)
    /\ spans = <<>>
    /\ ret = <<>>
    /\ tokens = <<>>
    /\ gold = <<>>
    /\ tags = <<>>
    /\ text = <<>>
    /\ service = <<>>
    /\ probs_list = <<>>

\* fit(texts, spans_list) is called: lines 59-85, up to the first fold that
\* kf.split yields.  KFold raises ValueError at line 79 for n_splits < 2 and
\* at line 85 for n_splits greater than the number of sentences
FitBegin ==
    /\ pc \in {"constructed", "fit_returned", "fit_raised"}
    /\ fit.call < MaxCalls
    /\ LET n == Len(corpus)
           sents == [i \in 1..n |-> tokenize_with_offsets(corpus[i].text)]
           y == [i \in 1..n |->
                    spans_to_bio(sents[i], corpus[i].spans.val, TAGS)]
           built == WithBuilders(model, build_lexicons(corpus))
           reset == [built EXCEPT
                        !.base_models = FreshBaseModels(model.base_models)]
           locals == [NoFit(fit.call + 1) EXCEPT
                        !.before = model, !.sents = sents, !.y = y]
       IN IF model.n_splits < 2
          THEN /\ model' = built
               /\ fit' = locals
               /\ pc' = "fit_raised"
          ELSE IF model.n_splits > n
          THEN /\ model' = reset
               /\ fit' = [locals EXCEPT !.oof_probs = EmptyOof(n)]
               /\ pc' = "fit_raised"
          ELSE /\ model' = reset
               /\ fit' = [locals EXCEPT
                            !.fold = 1, !.k = 1,
                            !.oof_probs = EmptyOof(n),
                            !.written = [k \in VariantSet |-> [i \in 1..n |-> 0]],
                            !.models_fold = [k \in VariantSet |-> None]]
               /\ pc' = "fit_fold"
    /\ UNCHANGED <<spans, ret, tokens, gold, tags, text, corpus, service, probs_list>>

\* lines 92-107 for one variant of the current fold: the CRF is trained
\* (crf.fit may raise), its marginals on the held-out sentences are stored,
\* and after variant C the fold's models are appended to base_models
FitTrain ==
    /\ pc = "fit_fold"
    /\ LET k == Variants[fit.k]
           fold == KFoldSplit(Len(corpus), model.n_splits, model.random_state,
                              fit.fold)
           crf == FoldModel(k, fit.fold, fit.call, fold)
           w == WriteOof(fit.oof_probs, fit.written, k, crf, fold.va, 1)
           models_fold == [fit.models_fold EXCEPT ![k] = crf]
       IN \E trained \in BOOLEAN :
            IF ~trained
            THEN /\ pc' = "fit_raised"
                 /\ UNCHANGED <<model, fit>>
            ELSE IF fit.k < Len(Variants)
            THEN /\ fit' = [fit EXCEPT !.k = @ + 1, !.oof_probs = w.oof,
                                       !.written = w.written,
                                       !.models_fold = models_fold]
                 /\ UNCHANGED <<model, pc>>
            ELSE /\ model' = [model EXCEPT
                                !.base_models = AppendFold(@, models_fold)]
                 /\ fit' = [fit EXCEPT !.fold = @ + 1, !.k = 1,
                                       !.oof_probs = w.oof,
                                       !.written = w.written,
                                       !.models_fold = [v \in VariantSet |-> None]]
                 /\ pc' = IF fit.fold < model.n_splits
                          THEN "fit_fold" ELSE "fit_meta"
    /\ UNCHANGED <<spans, ret, tokens, gold, tags, text, corpus, service, probs_list>>

\* lines 109-141: the two integrity checks, then the meta CRF is created
\* and trained (meta_model.fit may raise) and fit returns
FitMeta ==
    /\ pc = "fit_meta"
    /\ IF OofIncomplete(fit.oof_probs)
          \/ TokenLengthMismatch(fit.oof_probs, Len(corpus))
       THEN /\ pc' = "fit_raised"
            /\ UNCHANGED model
       ELSE \E trained \in BOOLEAN :
            /\ model' = [model EXCEPT
                            !.meta_model = MetaModel(fit.call, trained),
                            !.train_sents = IF trained THEN fit.sents ELSE @,
                            !.train_y = IF trained THEN fit.y ELSE @]
            /\ pc' = IF trained THEN "fit_returned" ELSE "fit_raised"
    /\ UNCHANGED <<spans, ret, tokens, gold, tags, text, corpus, fit, service, probs_list>>

NextFit == FitBegin \/ FitTrain \/ FitMeta

SpecFit == InitFit /\ [][NextFit]_vars

(***************************************************************************)
(* Vocabulary of the claims about fit.                                     *)
(***************************************************************************)
\* a fit call has passed line 85: the folds of kf.split exist
Splitting == pc \in {"fit_fold", "fit_meta"} \/ (pc = "fit_returned" /\ fit.call > 0)

\* the held-out sentences of fold j of the running call
HeldOut(j) ==
    Range(KFoldSplit(Len(corpus), model.n_splits, model.random_state, j).va)

\* the folds that have been trained completely for variant k
FoldsDone(k) ==
    IF pc = "fit_fold"
    THEN 1..(IF \E q \in 1..fit.k - 1 : Variants[q] = k THEN fit.fold ELSE fit.fold - 1)
    ELSE 1..model.n_splits

(***************************************************************************)
(* C11.  During StackedCRF.fit every training sentence is in the held-out  *)
(* set of exactly one fold; for each variant A, B, C its out-of-fold       *)
(* distribution is written exactly once (when the fold that holds it out   *)
(* is trained, never before and never again), and the fold model that      *)
(* writes it is of that variant and was trained on a set of sentences that *)
(* does not contain that sentence.                                         *)
(***************************************************************************)
C11_OneOofPerSentence ==
    Splitting =>
        \A i \in Idx(corpus) :
            /\ Cardinality({j \in 1..model.n_splits : i \in HeldOut(j)}) = 1
            /\ \A k \in VariantSet :
                  LET done == \E j \in FoldsDone(k) : i \in HeldOut(j)
                  IN /\ fit.written[k][i] = (IF done THEN 1 ELSE 0)
                     /\ (fit.oof_probs[k][i] # None) = done
                     /\ done =>
                          /\ fit.oof_probs[k][i].by.variant = k
                          /\ fit.oof_probs[k][i].by.call = fit.call
                          /\ i \in HeldOut(fit.oof_probs[k][i].by.fold)
                          /\ i \notin Range(fit.oof_probs[k][i].by.train)

\* a fit on three sentences in two folds of unequal size has returned
C11_Witness ==
    /\ pc = "fit_returned"
    /\ Len(corpus) = 3
    /\ model.n_splits = 2
    /\ \A k \in VariantSet : \A i \in Idx(corpus) : fit.written[k][i] = 1

(***************************************************************************)
(* C12.  After any StackedCRF.fit call returns, base_models holds exactly  *)
(* n_splits fold models for each of the variants A, B and C, in fold       *)
(* order, all created by that call, so all variants share one fold count   *)
(* K; this also holds when fit is called again on the same object.         *)
(***************************************************************************)
C12_FoldModelsPerVariant ==
    pc = "fit_returned" =>
        /\ DOMAIN model.base_models = VariantSet
        /\ \A k \in VariantSet :
              /\ Len(model.base_models[k]) = model.n_splits
              /\ \A j \in 1..model.n_splits :
                    /\ model.base_models[k][j].variant = k
                    /\ model.base_models[k][j].fold = j
                    /\ model.base_models[k][j].call = fit.call

\* a second fit on the object has returned
C12_Witness ==
    /\ pc = "fit_returned"
    /\ fit.call = 2
    /\ fit.before.base_models # <<>>
    /\ Len(model.base_models["A"]) = model.n_splits

(***************************************************************************)
(* C13, as claimed.  When StackedCRF.fit aborts with an error (OOF         *)
(* coverage incomplete, token-length mismatch, or a failure while          *)
(* splitting or training a fold), no partial model is published:           *)
(* base_builders, meta_builder, base_models and meta_model of the object   *)
(* are the same as before the call.                                        *)
(***************************************************************************)
C13_NoPartialModel ==
    pc = "fit_raised" =>
        /\ model.base_builders = fit.before.base_builders
        /\ model.meta_builder = fit.before.meta_builder
        /\ model.base_models = fit.before.base_models
        /\ model.meta_model = fit.before.meta_model

\* the fold models of variant k that predict reads from the object
FoldModelsOf(self, k) ==
    IF k \in DOMAIN self.base_models THEN self.base_models[k] ELSE <<>>

(***************************************************************************)
(* C29.  A predict call that runs while fit is executing on the same       *)
(* StackedCRF object, or after a fit call that raised, never sees an       *)
(* inconsistent model: whenever meta_model is set, every variant A, B, C   *)
(* has exactly n_splits fold models, and those models and the meta model   *)
(* all come from the same fit call.                                        *)
(***************************************************************************)
C29_PredictSeesOneFit ==
    model.meta_model # None =>
        \A k \in VariantSet :
            /\ Len(FoldModelsOf(model, k)) = model.n_splits
            /\ \A j \in Idx(FoldModelsOf(model, k)) :
                  FoldModelsOf(model, k)[j].call = model.meta_model.call

(***************************************************************************)
(* The object a fit call returns, as one value.                            *)
(***************************************************************************)
\* lines 85-107 from fold j on: the models of each fold appended in turn
RECURSIVE FitFolds(_, _, _)
FitFolds(self, c, j) ==
    IF j > self.n_splits THEN self
    ELSE FitFolds(
            [self EXCEPT !.base_models =
                AppendFold(@, [k \in VariantSet |->
                    FoldModel(k, j, c,
                              KFoldSplit(Len(corpus), self.n_splits,
                                         self.random_state, j))])],
            c, j + 1)

\* lines 57-141 when nothing raises: self after the c-th fit call returned
Fitted(self, c) ==
    LET n == Len(corpus)
        sents == [i \in 1..n |-> tokenize_with_offsets(corpus[i].text)]
        y == [i \in 1..n |-> spans_to_bio(sents[i], corpus[i].spans.val, TAGS)]
        begun == [WithBuilders(self, build_lexicons(corpus)) EXCEPT
                    !.base_models = FreshBaseModels(self.base_models)]
    IN [FitFolds(begun, c, 1) EXCEPT
            !.meta_model = MetaModel(c, TRUE),
            !.train_sents = sents,
            !.train_y = y]

\* the step-by-step fit and the one-value fit agree on the returned object
FitReturnsFitted ==
    pc = "fit_returned" => model = Fitted(fit.before, fit.call)

(***************************************************************************)
(* StackedCRF._avg_predict_marginals, predict and predict_spans.           *)
(***************************************************************************)
\* a probability is a whole number of parts of 1/Scale
Scale == 2

RECURSIVE SumDict(_)
SumDict(d) ==
    IF DOMAIN d = {} THEN 0
    ELSE LET x == CHOOSE x \in DOMAIN d : TRUE
         IN d[x] + SumDict([z \in DOMAIN d \ {x} |-> d[z]])

\* what m.predict_marginals_single can give for one token: a distribution
\* over the labels the model m was trained on
Dists(labels) == {d \in [labels -> 0..Scale] : SumDict(d) = Scale}

\* the lists [m.predict_marginals_single(X) for m in models] that may
\* arise for a sentence of n tokens
RECURSIVE MarginalLists(_, _)
MarginalLists(models, n) ==
    IF models = <<>> THEN {<<>>}
    ELSE {<<p>> \o rest : p \in [1..n -> Dists(Head(models).labels)],
                          rest \in MarginalLists(Tail(models), n)}

\* lines 152-153: for tag, p in probs[t].items(): acc[tag] += p
AddDict(acc, d) ==
    [tag \in DOMAIN acc \cup DOMAIN d |->
        (IF tag \in DOMAIN acc THEN acc[tag] ELSE 0)
        + (IF tag \in DOMAIN d THEN d[tag] ELSE 0)]

\* only the marginals of the last fold model are counted
Accumulate_LastOnly(acc, lists, t, m) ==
    IF lists = <<>> THEN acc
    ELSE AddDict(acc, lists[Len(lists)][t])

\* lines 150-153: the loop over probs_list for token t, from model m on
RECURSIVE Accumulate(_, _, _, _)
Accumulate(acc, lists, t, m) ==
    IF m > Len(lists) THEN acc
    ELSE Accumulate(AddDict(acc, lists[m][t]), lists, t, m + 1)

\* lines 155-156: s = sum(acc.values()) or 1.0; {k: v / s}; the quotient
\* v / s is kept as the pair of v and s
Normalised(acc) ==
    LET total == SumDict(acc)
        s == IF total = 0 THEN Scale ELSE total
    IN [tag \in DOMAIN acc |-> [num |-> acc[tag], den |-> s]]

\* lines 143-157, given the marginals of the models for the n_tokens
\* feature rows of the sentence
avg_predict_marginals(lists, n_tokens) ==
    [t \in 1..n_tokens |-> Normalised(Accumulate(<<>>, lists, t, 1))]

\* the tags of the meta model returned as they are
predict_Unvalidated(self, sent, raw) == raw

\* lines 162-176 for one text: raw is what self.meta_model.predict_single
\* gives for the meta features of the sentence
predict(self, sent, raw) == bio_validate(raw)

\* one fold model of every variant dropped by each call
AfterPredict_Consuming(self) ==
    [self EXCEPT !.base_models = [k \in DOMAIN @ |-> Tail(@[k])]]

\* lines 159-223: predict, predict_spans and _avg_predict_marginals assign
\* no attribute of self and change none of the objects it holds
AfterPredict(self) == self

\* the texts given to predict
PredictChars == {" ", "a", "1"}

PredictTexts == SeqsUpTo(PredictChars, MaxText)

\* the order in which random_state shuffles two sentences
TwoShuffle == <<1, 2>>

\* a model fitted on two sentences with n_splits = 2
FittedOnTwo ==
    /\ pc = "fit_returned"
    /\ corpus = [i \in 1..2 |-> FitRow(i)]
    /\ model = Fitted(StackedCRF(2, TwoShuffle), 1)
    /\ fit = NoFit(1)
    /\ ret = [op |-> "none", prev |-> "none"]
    /\ spans = <<>>
    /\ tokens = <<>>
    /\ gold = <<>>
    /\ service = <<>>

\* the text to tag, and in tags what the trained meta model answers for it:
\* one label it was trained on per feature row
InitPredict ==
    /\ FittedOnTwo
    /\ text \in PredictTexts
    /\ tags \in [Idx(tokenize_with_offsets(text)) -> model.meta_model.labels]
    /\ probs_list = <<>>

\* predict([text]); the averaged marginals reach the result only through
\* the answer of the meta model
Predict ==
    /\ pc = "fit_returned"
    /\ LET sent == tokenize_with_offsets(text)
       IN ret' = [op |-> "predict", prev |-> ret.op,
                  res |-> <<predict(model, sent, tags)>>]
    /\ model' = AfterPredict(model)
    /\ UNCHANGED <<pc, spans, tokens, gold, tags, text, corpus, fit, service,
                   probs_list>>

\* predict_spans([text]): predict, then the merge of equal neighbouring labels
PredictSpans ==
    /\ pc = "fit_returned"
    /\ LET sent == tokenize_with_offsets(text)
           tag_seqs == <<predict(model, sent, tags)>>
       IN ret' = [op |-> "predict_spans", prev |-> ret.op,
                  res |-> <<bio_to_spans(sent, tag_seqs[1])>>]
    /\ model' = AfterPredict(model)
    /\ UNCHANGED <<pc, spans, tokens, gold, tags, text, corpus, fit, service,
                   probs_list>>

NextPredict == Predict \/ PredictSpans

SpecPredict == InitPredict /\ [][NextPredict]_vars

(***************************************************************************)
(* Vocabulary of the claim about the spans of predict_spans.               *)
(***************************************************************************)
\* the tokens of the sentence that lie inside the place <<start, end>>
TokensWithin(sent, place) ==
    {k \in Idx(sent) : place[1] <= sent[k].a /\ sent[k].b <= place[2]}

\* the tag is 'O' and the label is 'O', or the tag is B- or I- of the label
FlattensTo(t, label) ==
    \/ t = <<"O">> /\ label = <<"O">>
    \/ t \in {<<"B">> \o label, <<"I">> \o label} /\ label # <<"O">>

\* out is the merge of the sentence's tags ts into runs of one flat label
MergedRuns(sent, ts, out) ==
    /\ \A k \in Idx(sent) :
          Cardinality({i \in Idx(out) : k \in TokensWithin(sent, out[i])}) = 1
    /\ \A i \in Idx(out) :
          LET inside == TokensWithin(sent, out[i])
          IN /\ inside # {}
             /\ \E first \in inside : \E last \in inside :
                   /\ \A k \in inside : first <= k /\ k <= last
                   /\ out[i][1] = sent[first].a
                   /\ out[i][2] = sent[last].b
             /\ \A k \in inside : FlattensTo(ts[k], out[i][3])
    /\ \A i \in 1..(Len(out) - 1) :
          /\ out[i][2] <= out[i + 1][1]
          /\ out[i][3] # out[i + 1][3]

(***************************************************************************)
(* C23.  The bio_to_spans step of predict_spans returns, for each text,    *)
(* spans in left-to-right order such that every token lies in exactly one  *)
(* span, each span runs from the start of its first token to the end of    *)
(* its last token, all tokens of a span share one flattened label (O       *)
(* included, B-/I- prefix removed), and two consecutive spans never carry  *)
(* the same label.                                                         *)
(***************************************************************************)
C23_SpansAreLabelRuns ==
    ret.op = "predict_spans" =>
        LET sent == tokenize_with_offsets(text)
        IN /\ Len(ret.res) = 1
           /\ MergedRuns(sent, bio_validate(tags), ret.res[1])

\* three tokens in two spans: a two-token VOLUME entity, then an O token
C23_Witness ==
    /\ ret.op = "predict_spans"
    /\ Len(tokenize_with_offsets(text)) = 3
    /\ Len(ret.res[1]) = 2
    /\ ret.res[1][1][3] = <<"VOLUME">>
    /\ ret.res[1][2][3] = <<"O">>

\* sentences of no, one, two and three tokens
MarginalTexts ==
    { <<>>, <<" ">>, <<"a">>, <<"1", "%">>, <<"a", " ", "1">>, <<"%", "a">>,
      <<"a", "%", "1">> }

\* the sentence, the variant, and in probs_list what the fold models of the
\* variant answer for the sentence
InitMarginals ==
    /\ FittedOnTwo
    /\ text \in MarginalTexts
    /\ tags = <<>>
    /\ \E k \in VariantSet :
         \E lists \in MarginalLists(model.base_models[k],
                                    Len(tokenize_with_offsets(text))) :
            probs_list = [variant |-> k, lists |-> lists]

\* self._avg_predict_marginals(self.base_builders[k], self.base_models[k],
\* sent)
AvgPredictMarginals ==
    /\ pc = "fit_returned"
    /\ ret' = [op |-> "_avg_predict_marginals", prev |-> ret.op,
               out |-> avg_predict_marginals(
                          probs_list.lists,
                          Len(tokenize_with_offsets(text)))]
    /\ model' = AfterPredict(model)
    /\ UNCHANGED <<pc, spans, tokens, gold, tags, text, corpus, fit, service,
                   probs_list>>

NextMarginals == AvgPredictMarginals

SpecMarginals == InitMarginals /\ [][NextMarginals]_vars

(***************************************************************************)
(* Vocabulary of the claims about inference.                               *)
(***************************************************************************)
\* the probability the fold model m gives the tag at token t, in parts of
\* 1/Scale: a label the model does not know has probability 0
FoldProb(lists, m, t, tag) ==
    IF tag \in DOMAIN lists[m][t] THEN lists[m][t][tag] ELSE 0

\* the sum of FoldProb over the fold models 1..m
RECURSIVE SumOfFolds(_, _, _, _)
SumOfFolds(lists, m, t, tag) ==
    IF m = 0 THEN 0
    ELSE FoldProb(lists, m, t, tag) + SumOfFolds(lists, m - 1, t, tag)

\* the averaged probability of a tag as a quotient: 0 for a tag left out
AvgProb(dist, tag) ==
    IF tag \in DOMAIN dist THEN dist[tag] ELSE [num |-> 0, den |-> 1]

(***************************************************************************)
(* C14.  For every input text, StackedCRF.predict returns exactly one tag  *)
(* per token of tokenize_with_offsets(text); every returned tag belongs to *)
(* the nine-symbol tagset and the sequence satisfies the BIO grammar: the  *)
(* raw output of the meta tagger is passed through bio_validate and a      *)
(* violation is corrected, never raised.                                   *)
(***************************************************************************)
C14_PredictTagsValid ==
    ret.op = "predict" =>
        /\ Len(ret.res) = 1
        /\ Len(ret.res[1]) = Len(tokenize_with_offsets(text))
        /\ \A i \in Idx(ret.res[1]) : ret.res[1][i] \in NineTags
        /\ GrammarOK(ret.res[1])

\* a call whose raw tags broke the grammar at the start and kept one
\* well-placed I- tag
C14_Witness ==
    /\ ret.op = "predict"
    /\ Len(tags) >= 3
    /\ tags[1][1] = "I" /\ ret.res[1][1][1] = "B"
    /\ \E i \in Idx(tags) : tags[i][1] = "I" /\ ret.res[1][i] = tags[i]

(***************************************************************************)
(* C15.  At inference the probability of each tag for a token under a      *)
(* base variant is the arithmetic mean over all K fold models of that      *)
(* variant (none left out, none counted twice), renormalised so that the   *)
(* values of the token sum to 1.                                           *)
(***************************************************************************)
C15_MeanOfAllFolds ==
    ret.op = "_avg_predict_marginals" =>
        LET K == model.n_splits
            n == Len(tokenize_with_offsets(text))
        IN /\ Len(model.base_models[probs_list.variant]) = K
           /\ Len(probs_list.lists) = K
           /\ Len(ret.out) = n
           /\ \A t \in 1..n :
                /\ \A tag \in NineTags :
                      AvgProb(ret.out[t], tag).num * (K * Scale)
                        = AvgProb(ret.out[t], tag).den
                            * SumOfFolds(probs_list.lists, K, t, tag)
                /\ \A tag \in DOMAIN ret.out[t] :
                      /\ tag \in NineTags
                      /\ ret.out[t][tag].den > 0
                      /\ ret.out[t][tag].den =
                            SumDict([x \in DOMAIN ret.out[t] |->
                                        ret.out[t][x].num])

\* two tokens; at one of them the fold models disagree, so that a tag known
\* to one model only gets a quarter
C15_Witness ==
    /\ ret.op = "_avg_predict_marginals"
    /\ Len(ret.out) = 2
    /\ \E t \in Idx(ret.out) : \E tag \in DOMAIN ret.out[t] :
          /\ tag \notin DOMAIN probs_list.lists[1][t]
          /\ ret.out[t][tag].num * 4 = ret.out[t][tag].den

RuleChars == {"1", ".", " ", "%", "m", "l", "L"}

MaxRuleText == 4

RuleUnits == << <<"m", "l">> >>

\* \w matches the character at index i
IsWordAt(t, i) == i \in Idx(t) /\ t[i] \in WordChars

\* \b holds before index i (after the last character for i = Len + 1)
WordBoundary(t, i) == IsWordAt(t, i - 1) # IsWordAt(t, i)

\* the index after the match of \d+[.,]?\d* that starts at the digit at i
RuleNumberEnd(t, i) ==
    RunEnd(t, Optional(t, RunEnd(t, i, Digits), Seps), Digits)

\* the index after the match of (л|ml|мл|г|кг|шт)\b, re.IGNORECASE, at index
\* k, trying the alternatives from the n-th on; k when none matches
RECURSIVE UnitEnd(_, _, _)
UnitEnd(t, k, n) ==
    IF n > Len(RuleUnits) THEN k
    ELSE LET e == k + Len(RuleUnits[n])
         IN IF e - 1 <= Len(t) /\ Lower(SubSeq(t, k, e - 1)) = RuleUnits[n]
               /\ WordBoundary(t, e)
            THEN e
            ELSE UnitEnd(t, k, n + 1)

\* the index after the match of volume_pattern (lines 22-25) that starts at
\* index i; i when there is none
VolumeMatchEnd(t, i) ==
    IF i <= Len(t) /\ t[i] \in Digits /\ WordBoundary(t, i)
    THEN LET k == Optional(t, RuleNumberEnd(t, i), Spaces)
         IN IF UnitEnd(t, k, 1) > k THEN UnitEnd(t, k, 1) ELSE i
    ELSE i

\* the index after the match of percent_pattern (lines 26-29) that starts at
\* index i; i when there is none
PercentMatchEnd(t, i) ==
    IF i <= Len(t) /\ t[i] \in Digits /\ WordBoundary(t, i)
    THEN LET k == Optional(t, RuleNumberEnd(t, i), Spaces)
         IN IF k <= Len(t) /\ t[k] = "%"
               /\ (WordBoundary(t, k + 1) \/ k = Len(t))
            THEN k + 1 ELSE i
    ELSE i

RuleMatchEnd(t, i, E) ==
    IF E = "VOLUME" THEN VolumeMatchEnd(t, i) ELSE PercentMatchEnd(t, i)

\* pattern.finditer(text) from index i on: match.span() of each match
RECURSIVE FindMatches(_, _, _)
FindMatches(t, i, E) ==
    IF i > Len(t) THEN <<>>
    ELSE IF RuleMatchEnd(t, i, E) > i
         THEN << [a |-> i - 1, b |-> RuleMatchEnd(t, i, E) - 1] >>
              \o FindMatches(t, RuleMatchEnd(t, i, E), E)
         ELSE FindMatches(t, i + 1, E)

\* matched_text.split()
RECURSIVE SplitWhitespace(_)
SplitWhitespace(w) ==
    IF w = <<>> THEN <<>>
    ELSE IF Head(w) \in Spaces THEN SplitWhitespace(Tail(w))
    ELSE LET e == RunEnd(w, 1, Range(w) \ Spaces)
         IN <<SubSeq(w, 1, e - 1)>> \o SplitWhitespace(SubSeq(w, e, Len(w)))

\* text.find(token): the first occurrence in the whole text
Find_FromStart(t, token, current_pos) ==
    LET hits == {q \in 0..(Len(t) - Len(token)) :
                    SubSeq(t, q + 1, q + Len(token)) = token}
    IN IF hits = {} THEN -1 ELSE CHOOSE q \in hits : \A r \in hits : q <= r

\* text.find(token, current_pos): -1 when the token is not found
RECURSIVE Find(_, _, _)
Find(t, token, current_pos) ==
    IF current_pos + Len(token) > Len(t) THEN -1
    ELSE IF SubSeq(t, current_pos + 1, current_pos + Len(token)) = token
         THEN current_pos
         ELSE Find(t, token, current_pos + 1)

\* Span(start=..., end=..., entity=..., text=token) of rules.py lines 8-14
RuleSpan(a, b, e, token) == [start |-> a, end |-> b, entity |-> e, text |-> token]

\* lines 43-59: for i, token in enumerate(tokens), from the i-th token on
RECURSIVE TokenSpans(_, _, _, _, _)
TokenSpans(t, toks, i, current_pos, E) ==
    IF i > Len(toks) THEN <<>>
    ELSE LET token_start == Find(t, toks[i], current_pos)
             token_end == token_start + Len(toks[i])
         IN << RuleSpan(token_start, token_end,
                        <<IF i = 1 THEN "B" ELSE "I", E>>, toks[i]) >>
            \o TokenSpans(t, toks, i + 1, token_end, E)

\* lines 35-59: for match in pattern.finditer(text), from the m-th match on
RECURSIVE MatchSpans(_, _, _, _)
MatchSpans(t, matches, m, E) ==
    IF m > Len(matches) THEN <<>>
    ELSE TokenSpans(t, SplitWhitespace(Slice(t, matches[m].a, matches[m].b)),
                    1, matches[m].a, E)
         \o MatchSpans(t, matches, m + 1, E)

extract_volumes(t) == MatchSpans(t, FindMatches(t, 1, "VOLUME"), 1, "VOLUME")

extract_percents(t) == MatchSpans(t, FindMatches(t, 1, "PERCENT"), 1, "PERCENT")

extract_all(t) == extract_volumes(t) \o extract_percents(t)

RuleTexts == SeqsUpTo(RuleChars, MaxRuleText)

InitRules ==
    /\ pc = "start"
    /\ text \in RuleTexts
    /\ ret = <<>>
    /\ spans = <<>>
    /\ tokens = <<>>
    /\ gold = <<>>
    /\ tags = <<>>
    /\ corpus = <<>>
    /\ model = <<>>
    /\ fit = <<>>
    /\ service = <<>>
    /\ probs_list = <<>>

ExtractVolumes ==
    /\ pc = "start"
    /\ pc' = "extract_volumes"
    /\ ret' = extract_volumes(text)
    /\ UNCHANGED <<spans, tokens, gold, tags, others>>

ExtractPercents ==
    /\ pc = "start"
    /\ pc' = "extract_percents"
    /\ ret' = extract_percents(text)
    /\ UNCHANGED <<spans, tokens, gold, tags, others>>

ExtractAll ==
    /\ pc = "start"
    /\ pc' = "extract_all"
    /\ ret' = extract_all(text)
    /\ UNCHANGED <<spans, tokens, gold, tags, others>>

NextRules == ExtractVolumes \/ ExtractPercents \/ ExtractAll

SpecRules == InitRules /\ [][NextRules]_vars

(***************************************************************************)
(* Vocabulary of the claim about the rules.                                *)
(***************************************************************************)
\* the whitespace-separated pieces of text[a:b], as places <<start, end>>
PiecePlaces(t, a, b) ==
    {<<x, y>> \in (a..b) \X (a..b) :
        /\ x < y
        /\ \A q \in (x + 1)..y : t[q] \notin Spaces
        /\ x = a \/ t[x] \in Spaces
        /\ y = b \/ t[y + 1] \in Spaces}

\* the spans the claim asks for: one per piece of every match of the rule
\* of entity E, B- for the first piece of a match and I- for the later ones
PieceSpans(t, E) ==
    LET matches == FindMatches(t, 1, E)
    IN UNION {{RuleSpan(p[1], p[2],
                        <<IF p[1] = matches[m].a THEN "B" ELSE "I", E>>,
                        Slice(t, p[1], p[2])) :
               p \in PiecePlaces(t, matches[m].a, matches[m].b)} :
              m \in Idx(matches)}

\* the list xs holds exactly the spans of the set S, ordered by start
ListsInOrder(xs, S) ==
    /\ Range(xs) = S
    /\ Len(xs) = Cardinality(S)
    /\ \A i \in 1..(Len(xs) - 1) : xs[i].end <= xs[i + 1].start

(***************************************************************************)
(* C24.  For every match of the volume or percent rule, extract_volumes /  *)
(* extract_percents emit one span per whitespace-separated piece of the    *)
(* match, the first tagged B-<E> and each later one I-<E>, and every       *)
(* emitted span satisfies 0 <= start < end <= len(text) and                *)
(* text[start:end] == span.text.                                           *)
(***************************************************************************)
C24_RuleSpans ==
    /\ pc = "extract_volumes" => ListsInOrder(ret, PieceSpans(text, "VOLUME"))
    /\ pc = "extract_percents" => ListsInOrder(ret, PieceSpans(text, "PERCENT"))
    /\ pc \in {"extract_volumes", "extract_percents"} =>
          \A i \in Idx(ret) :
             /\ 0 <= ret[i].start /\ ret[i].start < ret[i].end
             /\ ret[i].end <= Len(text)
             /\ Slice(text, ret[i].start, ret[i].end) = ret[i].text

\* a text with two matches of the same words, and a match of two pieces
C24_Witness ==
    \/ /\ pc = "extract_percents"
       /\ Len(ret) = 2
       /\ ret[1].text = ret[2].text
       /\ ret[2].entity = <<"B", "PERCENT">>
    \/ /\ pc = "extract_volumes"
       /\ Len(ret) = 2
       /\ ret[2].entity = <<"I", "VOLUME">>

(***************************************************************************)
(* The service: main.py (lifespan), pipeline.py (Pipeline), api.py and     *)
(* models.py (request and response models).                                *)
(***************************************************************************)
\* Pipeline(): lines 32-44; a component that is not None is TRUE, progress
\* is kept in tenths
Pipeline ==
    [rules |-> FALSE, tokenizer |-> FALSE, postprocessor |-> FALSE,
     brand_type_detector |-> FALSE, ner_pipeline |-> None,
     initialized |-> FALSE,
     model_name |-> None, model_loading_status |-> "not_started",
     model_loading_progress |-> 0, model_loading_error |-> None]

\* _load_ner_model, lines 155-195: pipeline("ner", model = model_name)
\* succeeds when the artifact is there and sound, and raises otherwise;
\* the exception is caught at line 190
load_ner_model(self, available, artifact) ==
    IF ~available
    THEN [raised |-> FALSE,
          self |-> [self EXCEPT
                      !.model_loading_status = "failed",
                      !.model_loading_error = <<"Transformers library not available">>]]
    ELSE IF artifact = "ok"
    THEN [raised |-> FALSE,
          self |-> [self EXCEPT
                      !.ner_pipeline = <<"ner">>,
                      !.model_loading_status = "loaded",
                      !.model_loading_progress = 10,
                      !.model_loading_error = None]]
    ELSE [raised |-> FALSE,
          self |-> [self EXCEPT
                      !.ner_pipeline = None,
                      !.model_loading_status = "failed",
                      !.model_loading_error = <<artifact>>,
                      !.model_loading_progress = 0]]

\* initialize, lines 46-77, under the settings and the environment env:
\* whether the component constructors succeed, whether transformers could
\* be imported, and the state of the model artifact.  The load of
\* BrandTypeDetector.initialize_ner_model catches its own failure
initialize(self, settings, env) ==
    IF ~env.components_ok THEN [raised |-> TRUE, self |-> self]
    ELSE
    LET made == [self EXCEPT !.rules = TRUE, !.tokenizer = TRUE,
                             !.postprocessor = TRUE,
                             !.brand_type_detector = TRUE]
        named == [made EXCEPT !.model_name = settings.MODEL_NAME]
        loaded == load_ner_model(named, env.TRANSFORMERS_AVAILABLE, env.artifact)
    IN IF settings.MODEL_NAME # None /\ env.TRANSFORMERS_AVAILABLE
       THEN IF loaded.raised THEN loaded
            ELSE [raised |-> FALSE,
                  self |-> [loaded.self EXCEPT !.initialized = TRUE]]
       ELSE IF settings.MODEL_NAME # None
       THEN [raised |-> FALSE,
             self |-> [named EXCEPT
                         !.model_loading_status = "failed",
                         !.model_loading_error =
                             <<"Transformers library not available">>,
                         !.initialized = TRUE]]
       ELSE [raised |-> FALSE,
             self |-> [made EXCEPT !.model_loading_status = "not_started",
                                   !.initialized = TRUE]]

\* is_ready, lines 79-86
is_ready(self) ==
    /\ self.initialized
    /\ self.rules /\ self.tokenizer /\ self.postprocessor
    /\ self.brand_type_detector

\* models.py line 7: max_length of PredictRequest.input
MaxInputLength == 10000

\* str.strip() for the whitespace of the modelled alphabet
RECURSIVE Strip(_)
Strip(s) ==
    IF s = <<>> THEN s
    ELSE IF Head(s) \in Spaces THEN Strip(Tail(s))
    ELSE IF s[Len(s)] \in Spaces THEN Strip(SubSeq(s, 1, Len(s) - 1))
    ELSE s

\* PredictRequest, models.py lines 5-15: extra fields are forbidden, the
\* input is stripped and then has to be 1 to 10000 characters long
PredictRequest(body) ==
    IF DOMAIN body # {"input"} THEN [valid |-> FALSE]
    ELSE IF Len(Strip(body.input)) < 1
            \/ Len(Strip(body.input)) > MaxInputLength
    THEN [valid |-> FALSE]
    ELSE [valid |-> TRUE, input |-> Strip(body.input)]

\* ReadyResponse, models.py lines 41-49: the fields status and
\* pipeline_ready, both required, extra fields forbidden
ReadyResponse(kwargs) ==
    IF DOMAIN kwargs # {"status", "pipeline_ready"} THEN [valid |-> FALSE]
    ELSE IF Len(kwargs.status) < 1 THEN [valid |-> FALSE]
    ELSE [valid |-> TRUE, value |-> kwargs]

\* an HTTP response
Response(op, code, body) == [op |-> op, status_code |-> code, body |-> body]

\* readiness_check, api.py lines 27-45; an exception that leaves the
\* handler is answered with status 500
readiness_check(pipeline) ==
    LET pipeline_ready == pipeline # None /\ is_ready(pipeline)
        answer == ReadyResponse(
            [status |-> IF pipeline_ready THEN <<"ok">> ELSE <<"not ready">>,
             pipeline_ready |-> pipeline_ready,
             model_loading_status |->
                 IF pipeline # None THEN pipeline.model_loading_status
                 ELSE "not_started",
             model_name |-> IF pipeline # None THEN pipeline.model_name ELSE None])
    IN IF answer.valid THEN Response("ready", 200, answer.value)
       ELSE Response("ready", 500, None)

\* result = [PredictSpan(start_index=..., end_index=..., entity=...)]
PredictSpans_(xs) ==
    [i \in Idx(xs) |-> [start_index |-> xs[i].start, end_index |-> xs[i].end,
                        entity |-> xs[i].entity]]

\* _normalize_text, pipeline.py lines 138-141: ' '.join(text.split())
RECURSIVE normalize_text(_)
normalize_text(txt) ==
    LET t == Strip(txt)
    IN IF Len(t) <= 1 THEN t
       ELSE IF t[1] \in Spaces \/ t[2] \notin Spaces
       THEN <<t[1]>> \o normalize_text(Tail(t))
       ELSE IF t[3] \in Spaces
       THEN normalize_text(<<t[1]>> \o Tail(Tail(t)))
       ELSE <<t[1], " ">> \o normalize_text(Tail(Tail(t)))

\* _extract_brands and _extract_types, pipeline.py lines 197-285: what the
\* NER model finds is used when the model is there and the text has three
\* characters or more
extract_ner(self, txt, ner_found) ==
    IF self.ner_pipeline = None \/ Len(Strip(txt)) < 3 THEN <<>> ELSE ner_found

\* the brand and type spans added although no model is loaded
NerCandidates_Always(self, txt, ner_found) == ner_found

\* lines 123-128: spans.extend(brand_spans); spans.extend(type_spans)
NerCandidates(self, txt, ner_found) ==
    IF self.ner_pipeline # None THEN extract_ner(self, txt, ner_found) ELSE <<>>

\* predict_bio suspends (awaits loop.run_in_executor) only inside
\* _extract_brands and _extract_types, lines 209 and 255
Suspends(self, txt) ==
    self.ner_pipeline # None /\ Len(Strip(normalize_text(txt))) >= 3

\* the spans of the rules as the post-processor reads them: start, end and
\* entity, the text being text[start:end]
RECURSIVE AsSpans(_)
AsSpans(xs) ==
    IF xs = <<>> THEN <<>>
    ELSE << Span(Head(xs).start, Head(xs).end, Head(xs).entity) >>
         \o AsSpans(Tail(xs))

\* predict_bio, pipeline.py lines 104-136, given the spans the NER model
\* answers for the normalised text (found.ner); fails tells whether
\* rules.extract_all or process_spans raises
predict_bio(self, txt, found, fails) ==
    IF ~is_ready(self) THEN [raised |-> TRUE, candidates |-> <<>>]
    ELSE IF txt = <<>> \/ Strip(txt) = <<>>
    THEN [raised |-> FALSE, candidates |-> <<>>, spans |-> <<>>]
    ELSE LET candidates ==
                 AsSpans(extract_all(normalize_text(txt)))
                 \o NerCandidates(self, normalize_text(txt), found.ner)
         IN IF fails THEN [raised |-> TRUE, candidates |-> candidates]
            ELSE [raised |-> FALSE, candidates |-> candidates,
                  spans |-> process_spans(candidates)]

\* timeout_decorator, timing.py lines 14-28: asyncio.wait_for cancels the
\* prediction and raises TimeoutError when the time is over while the
\* coroutine is suspended; a coroutine that passes the limit running, and
\* does not suspend afterwards, returns its result
TimedOut(outcome) == outcome = "overrun_suspended"

\* the result of the handler: the HTTP response, whether predict_bio was
\* called, what it collected and how it ended
Handled(response, started, candidates, outcome) ==
    [op |-> response.op, status_code |-> response.status_code,
     body |-> response.body, started |-> started, candidates |-> candidates,
     outcome |-> outcome]

\* predict_entities, api.py lines 68-126, behind the validation of the
\* request body (status 422 when it fails); outcome tells how the
\* prediction ends: in time, raising, or passing TIMEOUT_MS
predict_entities(pipeline, body, found, outcome) ==
    LET request == PredictRequest(body)
    IN IF ~request.valid
       THEN Handled(Response("predict", 422, None), FALSE, <<>>, "none")
       ELSE IF request.input = <<>>
       THEN Handled(Response("predict", 200, <<>>), FALSE, <<>>, "none")
       ELSE IF pipeline = None \/ ~is_ready(pipeline)
       THEN Handled(Response("predict", 503, None), FALSE, <<>>, "none")
       ELSE LET r == predict_bio(pipeline, request.input, found,
                                 outcome = "raise")
            IN IF TimedOut(outcome)
               THEN Handled(Response("predict", 200, <<>>), TRUE, r.candidates,
                            outcome)
               ELSE IF r.raised
               THEN Handled(Response("predict", 200, <<>>), TRUE, r.candidates,
                            outcome)
               ELSE Handled(Response("predict", 200, PredictSpans_(r.spans)),
                            TRUE, r.candidates,
                            outcome)

\* request bodies of POST /api/predict
RequestInputs ==
    { <<>>, <<" ">>, <<" ", " ", " ">>, <<"a">>, <<" ", "1", "m", "l", " ">>,
      <<"1", "%">>, <<"A", " ", " ", "1", " ", "m", "L">> }

\* what the NER model answers for a text: nothing, or one brand at its
\* first character
FoundSpans ==
    { [ner |-> n] : n \in { <<>>, << Span(0, 1, <<"BRAND">>) >> } }

\* the ways a prediction can end: in time, with an exception, or passing
\* TIMEOUT_MS, either suspended at an await when the time is over (or
\* later), which takes a prediction that awaits, or running with no later
\* await
Outcomes(pipeline, input) ==
    {"done", "raise", "overrun_running"}
    \cup (IF pipeline # None /\ Suspends(pipeline, Strip(input))
          THEN {"overrun_suspended"} ELSE {})

\* settings.MODEL_NAME (config.py line 20: None unless configured)
ModelNames == {None, <<"model">>}

\* the state of the model artifact when pipeline("ner", model=...) opens it
Artifacts == {"ok", "missing", "corrupt"}

\* the application is created (main.py line 79); the lifespan has not run
InitService ==
    /\ pc = "created"
    /\ \E name \in ModelNames : \E available, ok \in BOOLEAN :
       \E artifact \in Artifacts :
          service = [settings |-> [MODEL_NAME |-> name],
                     env |-> [TRANSFORMERS_AVAILABLE |-> available,
                              artifact |-> artifact,
                              components_ok |-> ok],
                     pipeline |-> None]
    /\ ret = Response("none", 0, None)
    /\ text = <<>>
    /\ spans = <<>>
    /\ tokens = <<>>
    /\ gold = <<>>
    /\ tags = <<>>
    /\ corpus = <<>>
    /\ model = <<>>
    /\ fit = <<>>
    /\ probs_list = <<>>

\* lifespan, main.py lines 16-29: no request is served before it has
\* finished; a failure of initialize ends the start
Lifespan ==
    /\ pc = "created"
    /\ LET r == initialize(Pipeline, service.settings, service.env)
       IN IF r.raised
          THEN /\ pc' = "startup_failed"
               /\ UNCHANGED service
          ELSE /\ pc' = "serving"
               /\ service' = [service EXCEPT !.pipeline = r.self]
    /\ UNCHANGED <<spans, ret, tokens, gold, tags, text, corpus, model, fit,
                   probs_list>>

\* GET /ready; the test client also serves an application whose lifespan
\* has not run
Ready ==
    /\ pc \in {"created", "serving"}
    /\ ret' = readiness_check(service.pipeline)
    /\ UNCHANGED <<pc, spans, tokens, gold, tags, text, corpus, model, fit,
                   service, probs_list>>

\* POST /api/predict with the JSON body {"input": input}
PredictEntities ==
    /\ pc \in {"created", "serving"}
    /\ \E input \in RequestInputs : \E found \in FoundSpans :
       \E outcome \in Outcomes(service.pipeline, input) :
          /\ text' = input
          /\ ret' = predict_entities(service.pipeline, [input |-> input],
                                     found, outcome)
    /\ UNCHANGED <<pc, spans, tokens, gold, tags, corpus, model, fit, service,
                   probs_list>>

NextService == Lifespan \/ Ready \/ PredictEntities

SpecService == InitService /\ [][NextService]_vars

(***************************************************************************)
(* Vocabulary of the claims about the service.                             *)
(***************************************************************************)
\* a model is configured and it is missing or cannot be loaded
ModelLoadFailed ==
    /\ service.settings.MODEL_NAME # None
    /\ ~service.env.TRANSFORMERS_AVAILABLE \/ service.env.artifact # "ok"

(***************************************************************************)
(* C19.  If the model configured for the service is missing or fails to    *)
(* load at startup, the service does not report itself ready:              *)
(* Pipeline.is_ready() and the pipeline_ready field of /ready stay false.  *)
(***************************************************************************)
C19_NotReadyWithoutModel ==
    (ModelLoadFailed /\ service.pipeline # None) =>
        /\ ~is_ready(service.pipeline)
        /\ (ret.op = "ready" /\ ret.status_code = 200) =>
               ret.body.pipeline_ready = FALSE

(***************************************************************************)
(* C20.  POST /api/predict with an empty input string or an input made     *)
(* only of whitespace answers with status 200 and an empty entity list.    *)
(***************************************************************************)
C20_EmptyInputEmptyList ==
    (ret.op = "predict" /\ Strip(text) = <<>>) =>
        ret.status_code = 200 /\ ret.body = <<>>

(***************************************************************************)
(* C21.  GET /ready always answers with status 200 and a body that has a   *)
(* status field and a boolean pipeline_ready field, whether or not the     *)
(* pipeline has been initialised.                                          *)
(***************************************************************************)
C21_ReadyAnswers200 ==
    ret.op = "ready" =>
        /\ ret.status_code = 200
        /\ {"status", "pipeline_ready"} \subseteq DOMAIN ret.body
        /\ ret.body.pipeline_ready \in BOOLEAN

\* the handler of POST /api/predict ran: the request body was valid
HandlerRan == ret.op = "predict" /\ ret.status_code # 422

\* a prediction that raised is answered with status 200 and no entity
RaisedGivesEmptyList ==
    (HandlerRan /\ ret.outcome = "raise") =>
        ret.status_code = 200 /\ ret.body = <<>>

\* a prediction that passed TIMEOUT_MS is answered with status 200 and no
\* entity
OverrunGivesEmptyList ==
    (HandlerRan /\ ret.outcome \in {"overrun_suspended", "overrun_running"}) =>
        ret.status_code = 200 /\ ret.body = <<>>

\* without a ready pipeline the answer is 503 and predict_bio is not called
AbsentGives503 ==
    (HandlerRan /\ (service.pipeline = None \/ ~is_ready(service.pipeline))) =>
        ret.status_code = 503 /\ ~ret.started

(***************************************************************************)
(* C22.  When the pipeline is ready and a prediction exceeds TIMEOUT_MS or *)
(* raises any exception, the /api/predict handler returns an empty entity  *)
(* list instead of an error; when the pipeline is absent or not ready the  *)
(* handler answers 503 and no prediction is started.                       *)
(***************************************************************************)
C22_TimeoutAndErrorFallback ==
    RaisedGivesEmptyList /\ OverrunGivesEmptyList /\ AbsentGives503

\* initialize has returned: the lifespan has handed the pipeline to the
\* application
Initialized == pc = "serving" /\ service.pipeline # None

ModelLoaded(self) == self.model_loading_status = "loaded"

\* the candidates of the last prediction hold a span of the NER model
NerCandidateAdded ==
    /\ HandlerRan
    /\ ret.started
    /\ \E i \in Idx(ret.candidates) :
          ret.candidates[i].entity \in {<<"BRAND">>, <<"TYPE">>}

(***************************************************************************)
(* C30.  In every state of the Pipeline after initialize has returned,     *)
(* model_loading_status is one of not_started, loaded or failed (never     *)
(* loading); it is loaded exactly when ner_pipeline is non-null, in which  *)
(* case loading progress is 1.0 and the loading error is None, and         *)
(* predict_bio adds BRAND/TYPE candidates from the NER model only in that  *)
(* state.                                                                  *)
(***************************************************************************)
C30_LoadingStatusSettled ==
    Initialized =>
        LET self == service.pipeline
        IN /\ self.model_loading_status \in {"not_started", "loaded", "failed"}
           /\ ModelLoaded(self) <=> self.ner_pipeline # None
           /\ ModelLoaded(self) =>
                 /\ self.model_loading_progress = 10
                 /\ self.model_loading_error = None
           /\ NerCandidateAdded => ModelLoaded(self)

\* a prediction on a loaded model whose candidates hold a rule span and a
\* brand of the NER model
C30_Witness ==
    /\ Initialized
    /\ ModelLoaded(service.pipeline)
    /\ NerCandidateAdded
    /\ Len(ret.candidates) >= 2

====
